---- MODULE Spec2Model ----
(***************************************************************************)
(* Random Coffee bot: the pure domain layer (schedule engine, RNG, pairing *)
(* engine, state transitions, update folding), the state store (cache and  *)
(* database) and the main loop (fetch, fold, messages, persist, commands,  *)
(* schedule), modelled from packages/app/src.                              *)
(***************************************************************************)
EXTENDS Integers, Sequences, FiniteSets, TLC

VARIABLES
    cache,      \* state-store Ref: the BotState returned by get
    db,         \* the BotState last written to the database by persistState
    pc,         \* position of the main loop inside runOnce
    cur,        \* the BotState threaded through the tick (afterMessages / updated)
    fallback,   \* the fallback handed to logAndFallback (afterMessages)
    batch,      \* the updates returned by getUpdates for this tick
    idx,        \* index of the next update / chat to handle in the running loop
    todo,       \* Object.entries(state.chats) captured by handleDecision
    zoned,      \* the result of getZonedDate captured by the running handler
    clock,      \* wall clock: today's local date parts
    tg,         \* platform side: every poll sent, with its chat and status
    log,        \* what happened in the current tick (commands dispatched, chats decided, writes)
    sched,      \* pure-function probe: decideSchedule input and result
    st          \* pure-function probe: a BotState under arbitrary state transitions

tickVars == <<cache, db, pc, cur, fallback, batch, idx, todo, zoned, clock, tg, log>>
vars == <<cache, db, pc, cur, fallback, batch, idx, todo, zoned, clock, tg, log, sched, st>>

----------------------------------------------------------------------------
(* Bounds of the model *)

MaxPolls == 2        \* polls the platform hands out in one run
MaxUpdates == 2      \* updates delivered in one run (caps updateOffset)
MaxBatch == 2        \* updates in one getUpdates batch
MaxDays == 4         \* days the wall clock advances in one run
ProbeDays == 12      \* length of the date window of the schedule probe
MaxOps == 5          \* state transitions applied to the probe state
ProbeBatch == 3      \* updates in one batch of the fold probe
MaxCalendarDays == 9 \* days the wall clock advances in the calendar probe
MaxIdleDays == 1     \* days of the calendar probe without a tick
MaxProfileOps == 3   \* updates of the profile probe
MaxActionOps == 3    \* actions run in the action probe
MaxLoopDays == 1     \* days the wall clock advances in the observed loop
MaxPairUsers == 4    \* participants handed to the pairing probe
MaxChatOps == 4      \* state transitions applied in the chat probe
MaxHandlerOps == 3   \* handler runs of the handler probe
MaxProbePolls == 3   \* polls handed out in one run of the vote probe

ChatIds == {"-1001", "-1002"}
UserIds == {1, 2}
ThreadIds == {7}
NoThread == 0                 \* threadId: null / messageThreadId: undefined
NoDate == <<>>                \* lastSummaryAt: null
NoPollId == 0
NoPoll == [pollId |-> NoPollId, messageId |-> 0, chatId |-> "", summaryDate |-> NoDate, threadId |-> NoThread]

----------------------------------------------------------------------------
(* Schedule engine: core/schedule.ts *)

Weekdays == {"Mon", "Tue", "Wed", "Thu", "Fri", "Sat", "Sun"}

weekdayIndex(weekday) ==
    CASE weekday = "Mon" -> 1 [] weekday = "Tue" -> 2 [] weekday = "Wed" -> 3
      [] weekday = "Thu" -> 4 [] weekday = "Fri" -> 5 [] weekday = "Sat" -> 6
      [] weekday = "Sun" -> 7

DigitChar == <<"0", "1", "2", "3", "4", "5", "6", "7", "8", "9">>

RECURSIVE toString(_)
toString(n) ==
    IF n < 10 THEN <<DigitChar[n + 1]>>
    ELSE toString(n \div 10) \o <<DigitChar[(n % 10) + 1]>>

RECURSIVE padStart(_, _)
padStart(s, width) ==
    IF Len(s) >= width THEN s ELSE padStart(<<"0">> \o s, width)

formatLocalDate(parts) ==
    padStart(toString(parts.year), 4) \o <<"-">> \o
    padStart(toString(parts.month), 2) \o <<"-">> \o
    padStart(toString(parts.day), 2)

IsLeap(y) == (y % 4 = 0 /\ y % 100 # 0) \/ y % 400 = 0

DaysInMonth(y, m) ==
    IF m = 2 THEN (IF IsLeap(y) THEN 29 ELSE 28)
    ELSE IF m \in {4, 6, 9, 11} THEN 30 ELSE 31

\* one step of the UTC millisecond arithmetic of addDays: the next calendar day
NextDay(parts) ==
    IF parts.day < DaysInMonth(parts.year, parts.month)
    THEN [parts EXCEPT !.day = parts.day + 1]
    ELSE IF parts.month < 12
         THEN [year |-> parts.year, month |-> parts.month + 1, day |-> 1]
         ELSE [year |-> parts.year + 1, month |-> 1, day |-> 1]

RECURSIVE addDays(_, _)
addDays(parts, days) ==
    IF days <= 0 THEN parts ELSE addDays(NextDay(parts), days - 1)

nextMondaySunday(parts, weekday) ==
    formatLocalDate(addDays(parts, (7 - weekdayIndex(weekday)) % 7))

nextMonday(parts, weekday) ==
    LET index == weekdayIndex(weekday)
        daysToMonday == (8 - index) % 7
    IN formatLocalDate(addDays(parts, daysToMonday))

isPollDay(weekday) == weekday = "Fri" \/ weekday = "Sat" \/ weekday = "Sun"

isSummaryDayAnyMonday(chat, today, weekday) ==
    weekday = "Mon" /\ chat.poll # NoPoll

isSummaryDayInverted(chat, today, weekday) ==
    weekday = "Mon" /\ chat.poll # NoPoll /\ chat.poll.summaryDate # today

isSummaryDay(chat, today, weekday) ==
    weekday = "Mon" /\ chat.poll # NoPoll /\ chat.poll.summaryDate = today

shouldSkipScheduleNoLast(chat, today, weekday) ==
    chat.poll # NoPoll /\ ~isSummaryDay(chat, today, weekday)

shouldSkipSchedule(chat, today, weekday) ==
    IF chat.lastSummaryAt = today THEN TRUE
    ELSE IF chat.poll # NoPoll /\ ~isSummaryDay(chat, today, weekday) THEN TRUE
    ELSE FALSE

summaryDateForPollSameWeek(todayParts, weekday) ==
    LET index == weekdayIndex(weekday)
        daysToMonday == (8 - index) % 7
    IN formatLocalDate(addDays(todayParts, daysToMonday))

summaryDateForPoll(todayParts, weekday) ==
    LET index == weekdayIndex(weekday)
        daysToMonday == IF weekday = "Mon" THEN 7 ELSE (8 - index) % 7
    IN formatLocalDate(addDays(todayParts, daysToMonday))

nextPollWindow(todayParts, weekday) ==
    IF isPollDay(weekday)
    THEN [startDate |-> formatLocalDate(todayParts), daysUntilStart |-> 0, isOpen |-> TRUE]
    ELSE LET daysUntil == (weekdayIndex("Fri") - weekdayIndex(weekday) + 7) % 7
         IN [startDate |-> formatLocalDate(addDays(todayParts, daysUntil)),
             daysUntilStart |-> daysUntil, isOpen |-> FALSE]

Noop == [kind |-> "noop", summaryDate |-> NoDate]

decideSchedule(chat, todayParts, weekday) ==
    LET today == formatLocalDate(todayParts) IN
    IF shouldSkipSchedule(chat, today, weekday) THEN Noop
    ELSE IF isSummaryDay(chat, today, weekday)
    THEN [kind |-> "summarize", summaryDate |-> today]
    ELSE IF isPollDay(weekday)
            /\ (chat.poll = NoPoll \/ chat.poll.summaryDate # nextMonday(todayParts, weekday))
    THEN [kind |-> "createPoll", summaryDate |-> nextMonday(todayParts, weekday)]
    ELSE Noop

\* shell/time.ts getZonedDate: the weekday Intl reports for a calendar date
\* (proleptic Gregorian day count; 0001-01-01 is a Monday)
RECURSIVE DaysBeforeMonth(_, _)
DaysBeforeMonth(y, m) ==
    IF m <= 1 THEN 0 ELSE DaysBeforeMonth(y, m - 1) + DaysInMonth(y, m - 1)

Ordinal(parts) ==
    LET y == parts.year - 1 IN
    365 * y + (y \div 4) - (y \div 100) + (y \div 400)
        + DaysBeforeMonth(parts.year, parts.month) + parts.day

WeekdayNames == <<"Mon", "Tue", "Wed", "Thu", "Fri", "Sat", "Sun">>

WeekdayOf(parts) == WeekdayNames[((Ordinal(parts) - 1) % 7) + 1]

getZonedDate(parts) == [parts |-> parts, weekday |-> WeekdayOf(parts)]

----------------------------------------------------------------------------
(* Deterministic RNG: core/rng.ts *)

modulus == 2147483647
multiplier == 48271

\* the remainder operator of the source language (sign of the dividend)
Rem(a, m) == IF a >= 0 THEN a % m ELSE -((-a) % m)

\* (positive * multiplier) % modulus, computed without leaving 32 bits
MulMod(positive) ==
    LET q == modulus \div multiplier
        r == modulus % multiplier
        t == multiplier * (positive % q) - r * (positive \div q)
    IN IF t < 0 THEN t + modulus ELSE t

nextSeed(seed) ==
    LET normalized == Rem(seed, modulus)
        positive == IF normalized > 0 THEN normalized ELSE normalized + modulus
    IN MulMod(positive)

randomInt(seed, upperExclusive) ==
    LET next == nextSeed(seed)
    IN [value |-> IF upperExclusive <= 0 THEN 0 ELSE next % upperExclusive, seed |-> next]

Swap(items, i, j) ==
    [k \in DOMAIN items |-> IF k = i THEN items[j] ELSE IF k = j THEN items[i] ELSE items[k]]

\* i is the 1-based position of the loop index (copy.length - 1 down to 1, 0-based)
RECURSIVE shuffleFrom(_, _, _)
shuffleFrom(items, seed, i) ==
    IF i <= 1 THEN [items |-> items, seed |-> seed]
    ELSE LET result == randomInt(seed, i)
         IN shuffleFrom(Swap(items, i, result.value + 1), result.seed, i - 1)

shuffle(items, seed) == shuffleFrom(items, seed, Len(items))

----------------------------------------------------------------------------
(* Maps with the key order of the source language's objects *)

EmptyMap == [k \in {} |-> 0]

Put(f, k, v) == [x \in (DOMAIN f) \cup {k} |-> IF x = k THEN v ELSE f[x]]

Remove(f, k) == [x \in (DOMAIN f) \ {k} |-> f[x]]

Has(f, k) == k \in DOMAIN f

\* insertion order of string keys: a new key goes last, an existing key keeps its place
Append1(order, k) ==
    IF \E i \in DOMAIN order : order[i] = k THEN order ELSE Append(order, k)

RECURSIVE Ascending(_)
Ascending(S) ==
    IF S = {} THEN <<>>
    ELSE LET least == CHOOSE x \in S : \A y \in S : x <= y
         IN <<least>> \o Ascending(S \ {least})

----------------------------------------------------------------------------
(* Participant directory: core/participants.ts *)

Participant(u) == [id |-> u]

upsertParticipant(participants, participant) ==
    Put(participants, participant.id, participant)

removeParticipant(participants, userId) == Remove(participants, userId)

\* Object.values of a map with integer-like keys: ascending key order
listParticipants(participants) ==
    LET ids == Ascending(DOMAIN participants)
    IN [i \in DOMAIN ids |-> participants[ids[i]]]

----------------------------------------------------------------------------
(* Pairing engine: core/pairing.ts *)

keyForAsGiven(a, b) == <<a.id, b.id>>

keyFor(a, b) == IF a.id < b.id THEN <<a.id, b.id>> ELSE <<b.id, a.id>>

historyCount(history, a, b) ==
    IF Has(history, keyFor(a, b)) THEN history[keyFor(a, b)] ELSE 0

incrementHistory(history, a, b) ==
    Put(history, keyFor(a, b), historyCount(history, a, b) + 1)

\* the candidates whose history count with current is the minimum, in scan order
bestCandidates(current, candidates, history) ==
    LET counts == {historyCount(history, current, candidates[i]) : i \in DOMAIN candidates}
        minCount == CHOOSE c \in counts : \A d \in counts : c <= d
        IsBest(candidate) == historyCount(history, current, candidate) = minCount
    IN IF candidates = <<>> THEN <<>> ELSE SelectSeq(candidates, IsBest)

choosePartnerFirst(current, candidates, history, seed) ==
    [partner |-> IF candidates # <<>> THEN candidates[1] ELSE current, seed |-> seed]

choosePartner(current, candidates, history, seed) ==
    LET best == bestCandidates(current, candidates, history)
        picked == IF Len(best) > 1 THEN randomInt(seed, Len(best)) ELSE [value |-> 0, seed |-> seed]
        partner == IF picked.value + 1 \in DOMAIN best THEN best[picked.value + 1]
                   ELSE IF candidates # <<>> THEN candidates[1] ELSE current
    IN [partner |-> partner, seed |-> picked.seed]

removeByIdKeepingPartner(candidates, participant) == candidates

removeById(candidates, participant) ==
    LET Keep(candidate) == candidate.id # participant.id
    IN SelectSeq(candidates, Keep)

RECURSIVE buildPairsFrom(_, _, _, _)
buildPairsFrom(remaining, history, seed, pairs) ==
    IF Len(remaining) < 2 THEN [pairs |-> pairs, remaining |-> remaining, seed |-> seed]
    ELSE LET current == remaining[1]
             candidates == Tail(remaining)
             chosen == choosePartner(current, candidates, history, seed)
             pair == [kind |-> "pair", members |-> <<current, chosen.partner>>]
         IN buildPairsFrom(removeById(candidates, chosen.partner), history, chosen.seed,
                           Append(pairs, pair))

buildPairs(participants, history, seed) == buildPairsFrom(participants, history, seed, <<>>)

pairParticipants(participants, history, seed) ==
    IF Len(participants) < 2
    THEN [pairs |-> <<>>, leftovers |-> participants, seed |-> seed]
    ELSE LET shuffled == shuffle(participants, seed)
             built == buildPairs(shuffled.items, history, shuffled.seed)
         IN [pairs |-> built.pairs, leftovers |-> built.remaining, seed |-> built.seed]

buildAssignmentsFirstTwo(members, seed) ==
    IF Len(members) = 0 THEN [assignments |-> <<>>, seed |-> seed]
    ELSE LET picked == randomInt(seed, Len(members))
             organizer == members[picked.value + 1]
         IN [assignments |->
                [i \in DOMAIN members |->
                    [participant |-> members[i],
                     counterparts |-> LET Other(c) == c.id # members[i].id
                                      IN SelectSeq(SubSeq(members, 1, 2), Other),
                     isOrganizer |-> organizer.id = members[i].id]],
             seed |-> picked.seed]

buildAssignments(members, seed) ==
    IF Len(members) = 0 THEN [assignments |-> <<>>, seed |-> seed]
    ELSE LET picked == randomInt(seed, Len(members))
             organizer == members[picked.value + 1]
         IN [assignments |->
                [i \in DOMAIN members |->
                    [participant |-> members[i],
                     counterparts |-> LET Other(c) == c.id # members[i].id
                                      IN SelectSeq(members, Other),
                     isOrganizer |-> organizer.id = members[i].id]],
             seed |-> picked.seed]

RECURSIVE assignOrganizersFrom(_, _, _)
assignOrganizersFrom(pairs, seed, assignments) ==
    IF pairs = <<>> THEN [assignments |-> assignments, seed |-> seed]
    ELSE LET result == buildAssignments(Head(pairs).members, seed)
         IN assignOrganizersFrom(Tail(pairs), result.seed, assignments \o result.assignments)

assignOrganizers(pairs, seed) == assignOrganizersFrom(pairs, seed, <<>>)

assignSoloParticipants(participants) ==
    [i \in DOMAIN participants |->
        [participant |-> participants[i], counterparts |-> <<>>, isOrganizer |-> FALSE]]

addPairHistory(history, pair) ==
    IF pair.kind = "pair"
    THEN incrementHistory(history, pair.members[1], pair.members[2])
    ELSE LET withFirst == incrementHistory(history, pair.members[1], pair.members[2])
             withSecond == incrementHistory(withFirst, pair.members[1], pair.members[3])
         IN incrementHistory(withSecond, pair.members[2], pair.members[3])

RECURSIVE updateHistory(_, _)
updateHistory(history, pairs) ==
    IF pairs = <<>> THEN history
    ELSE updateHistory(addPairHistory(history, Head(pairs)), Tail(pairs))

----------------------------------------------------------------------------
(* Domain model and state-transition functions: core/domain.ts, core/state.ts *)

NoTitle == ""                 \* title: null / chatTitle: undefined
NoLink == ""                  \* inviteLink: null

emptyChatState(seed) ==
    [poll |-> NoPoll, participants |-> EmptyMap, history |-> EmptyMap, seed |-> seed,
     threadId |-> NoThread, title |-> NoTitle, inviteLink |-> NoLink, lastSummaryAt |-> NoDate]

\* order is the key order of the chats object (Object.entries iterates it)
emptyState(seed) ==
    [chats |-> EmptyMap, order |-> <<>>, pollIndex |-> EmptyMap, updateOffset |-> 0, seed |-> seed]

\* the chat an updater is applied to: none when the chat is missing
chatOf(state, chatId) ==
    IF Has(state.chats, chatId) THEN {state.chats[chatId]} ELSE {}

\* updater is the callback as a function on chatOf(state, chatId)
updateChat(state, chatId, updater) ==
    IF ~Has(state.chats, chatId) THEN state
    ELSE [state EXCEPT !.chats = Put(state.chats, chatId, updater[state.chats[chatId]])]

removePollIndex(state, pollId) ==
    [state EXCEPT !.pollIndex = Remove(state.pollIndex, pollId)]

clearPoll(state, chatId, updater) ==
    IF ~Has(state.chats, chatId) THEN state
    ELSE LET pollId == state.chats[chatId].poll.pollId
             updated == updateChat(state, chatId, updater)
         IN IF pollId # NoPollId THEN removePollIndex(updated, pollId) ELSE updated

ensureChatAgain(state, chatId) ==
    [state EXCEPT !.seed = nextSeed(state.seed),
                  !.chats = Put(state.chats, chatId, emptyChatState(state.seed)),
                  !.order = Append1(state.order, chatId)]

ensureChat(state, chatId) ==
    IF Has(state.chats, chatId) THEN state
    ELSE [state EXCEPT !.seed = nextSeed(state.seed),
                       !.chats = Put(state.chats, chatId, emptyChatState(state.seed)),
                       !.order = Append1(state.order, chatId)]

setThreadId(state, chatId, threadId) ==
    LET updater == [chat \in chatOf(state, chatId) |-> [chat EXCEPT !.threadId = threadId]]
    IN updateChat(state, chatId, updater)

setChatTitleEverywhere(state, chatId, title) ==
    IF ~Has(state.chats, chatId) THEN state
    ELSE [state EXCEPT !.chats = [c \in DOMAIN state.chats |->
                                     [state.chats[c] EXCEPT !.title = title]]]

setChatTitle(state, chatId, title) ==
    LET updater == [chat \in chatOf(state, chatId) |->
                        IF chat.title = title THEN chat ELSE [chat EXCEPT !.title = title]]
    IN updateChat(state, chatId, updater)

setChatInviteLink(state, chatId, inviteLink) ==
    LET updater == [chat \in chatOf(state, chatId) |->
            IF chat.inviteLink = inviteLink THEN chat ELSE [chat EXCEPT !.inviteLink = inviteLink]]
    IN updateChat(state, chatId, updater)

startPoll(state, chatId, poll) ==
    LET existingPollId ==
            IF Has(state.chats, chatId) THEN state.chats[chatId].poll.pollId ELSE NoPollId
        base == IF existingPollId # NoPollId THEN removePollIndex(state, existingPollId) ELSE state
        updater == [chat \in chatOf(state, chatId) |->
                        [chat EXCEPT !.poll = poll, !.participants = EmptyMap]]
        updated == updateChat(base, chatId, updater)
    IN [updated EXCEPT !.pollIndex = Put(updated.pollIndex, poll.pollId, chatId)]

applySummaryKeepingSeed(state, chatId, pairs, seed, summaryDate) ==
    LET updater == [current \in chatOf(state, chatId) |->
            [current EXCEPT !.history = updateHistory(current.history, pairs),
                            !.poll = NoPoll,
                            !.participants = EmptyMap,
                            !.lastSummaryAt = summaryDate]]
    IN clearPoll(state, chatId, updater)

applySummaryReplacingHistory(state, chatId, pairs, seed, summaryDate) ==
    LET updater == [current \in chatOf(state, chatId) |->
            [current EXCEPT !.history = updateHistory(EmptyMap, pairs),
                            !.poll = NoPoll,
                            !.participants = EmptyMap,
                            !.seed = seed,
                            !.lastSummaryAt = summaryDate]]
    IN clearPoll(state, chatId, updater)

applySummary(state, chatId, pairs, seed, summaryDate) ==
    LET updater == [current \in chatOf(state, chatId) |->
            [current EXCEPT !.history = updateHistory(current.history, pairs),
                            !.poll = NoPoll,
                            !.participants = EmptyMap,
                            !.seed = seed,
                            !.lastSummaryAt = summaryDate]]
    IN clearPoll(state, chatId, updater)

finishPollKeepingParticipants(state, chatId) ==
    LET updater == [current \in chatOf(state, chatId) |-> [current EXCEPT !.poll = NoPoll]]
    IN clearPoll(state, chatId, updater)

finishPoll(state, chatId) ==
    LET updater == [current \in chatOf(state, chatId) |->
                        [current EXCEPT !.poll = NoPoll, !.participants = EmptyMap]]
    IN clearPoll(state, chatId, updater)

----------------------------------------------------------------------------
(* Update folding: core/updates.ts, core/telegram-commands.ts *)

NoUser == 0
NoChatSeen == [chatId |-> "", chatType |-> "", chatTitle |-> NoTitle]
NoMessage == [chatId |-> "", chatType |-> "", text |-> "", from |-> NoUser,
              messageThreadId |-> NoThread, chatTitle |-> NoTitle]
NoPollVote == [pollId |-> NoPollId, participant |-> NoUser, optionIds |-> {}]

isGroupChat(chatType) == chatType = "group" \/ chatType = "supergroup"

applyChatMetadata(state, chatId, chatType, chatTitle) ==
    IF ~isGroupChat(chatType) THEN state
    ELSE LET withChat == ensureChat(state, chatId)
         IN IF chatTitle # NoTitle THEN setChatTitle(withChat, chatId, chatTitle) ELSE withChat

applyChatSeen(state, chatSeen) ==
    applyChatMetadata(state, chatSeen.chatId, chatSeen.chatType, chatSeen.chatTitle)

applyMessage(state, message) ==
    applyChatMetadata(state, message.chatId, message.chatType, message.chatTitle)

applyPollVoteAnyOption(state, pollVote) ==
    IF ~Has(state.pollIndex, pollVote.pollId) THEN state
    ELSE LET chatId == state.pollIndex[pollVote.pollId]
             chat == state.chats[chatId]
         IN [state EXCEPT !.chats = Put(state.chats, chatId,
                [chat EXCEPT !.participants =
                    IF pollVote.optionIds # {}
                    THEN upsertParticipant(chat.participants, Participant(pollVote.participant))
                    ELSE removeParticipant(chat.participants, pollVote.participant)])]

applyPollVoteUnindexed(state, pollVote) ==
    LET chatId == IF Has(state.pollIndex, pollVote.pollId)
                  THEN state.pollIndex[pollVote.pollId] ELSE Head(state.order)
        chat == state.chats[chatId]
    IN [state EXCEPT !.chats = Put(state.chats, chatId,
           [chat EXCEPT !.participants =
               IF 0 \in pollVote.optionIds
               THEN upsertParticipant(chat.participants, Participant(pollVote.participant))
               ELSE removeParticipant(chat.participants, pollVote.participant)])]

applyPollVote(state, pollVote) ==
    IF ~Has(state.pollIndex, pollVote.pollId) THEN state
    ELSE LET chatId == state.pollIndex[pollVote.pollId] IN
         IF ~Has(state.chats, chatId) THEN state
         ELSE IF pollVote.participant = NoUser THEN state
         ELSE LET chat == state.chats[chatId]
                  voted == 0 \in pollVote.optionIds
                  participants ==
                      IF voted
                      THEN upsertParticipant(chat.participants, Participant(pollVote.participant))
                      ELSE removeParticipant(chat.participants, pollVote.participant)
              IN [state EXCEPT !.chats = Put(state.chats, chatId,
                                             [chat EXCEPT !.participants = participants])]

applyUpdate(state, update) ==
    LET withChatSeen == IF update.chatSeen # NoChatSeen
                        THEN applyChatSeen(state, update.chatSeen) ELSE state
        withMessage == IF update.message # NoMessage
                       THEN applyMessage(withChatSeen, update.message) ELSE withChatSeen
    IN IF update.pollVote # NoPollVote
       THEN applyPollVote(withMessage, update.pollVote) ELSE withMessage

RECURSIVE foldUpdates(_, _)
foldUpdates(state, updates) ==
    IF updates = <<>> THEN state
    ELSE foldUpdates(applyUpdate(state, Head(updates)), Tail(updates))

RECURSIVE maxUpdateIdLast(_, _)
maxUpdateIdLast(updates, maxUpdateId) ==
    IF updates = <<>> THEN maxUpdateId
    ELSE maxUpdateIdLast(Tail(updates), Head(updates).updateId)

RECURSIVE maxUpdateIdFrom(_, _)
maxUpdateIdFrom(updates, maxUpdateId) ==
    IF updates = <<>> THEN maxUpdateId
    ELSE maxUpdateIdFrom(Tail(updates),
             IF Head(updates).updateId > maxUpdateId THEN Head(updates).updateId ELSE maxUpdateId)

applyUpdates(state, updates) ==
    LET updated == foldUpdates(state, updates)
    IN IF Len(updates) = 0 THEN updated
       ELSE [updated EXCEPT !.updateOffset = maxUpdateIdFrom(updates, -1) + 1]

----------------------------------------------------------------------------
(* Persistence: shell/state-store-db-persist.ts, shell/state-store-db-rows.ts *)

RECURSIVE Flat(_)
Flat(seqs) == IF seqs = <<>> THEN <<>> ELSE Head(seqs) \o Flat(Tail(seqs))

historyKeys(history) ==
    LET firsts == Ascending({k[1] : k \in DOMAIN history})
        Seconds(a) == Ascending({k[2] : k \in {h \in DOMAIN history : h[1] = a}})
    IN Flat([i \in DOMAIN firsts |->
                [j \in DOMAIN Seconds(firsts[i]) |-> <<firsts[i], Seconds(firsts[i])[j]>>]])

\* the chat rows carry no invite link
buildPersistRows(state) ==
    LET chatRows == [i \in DOMAIN state.order |->
            LET chat == state.chats[state.order[i]]
            IN [chatId |-> state.order[i], seed |-> chat.seed, threadId |-> chat.threadId,
                title |-> chat.title, lastSummaryAt |-> chat.lastSummaryAt]]
        HasPoll(chatId) == state.chats[chatId].poll # NoPoll
        withPoll == SelectSeq(state.order, HasPoll)
        pollRows == [i \in DOMAIN withPoll |-> state.chats[withPoll[i]].poll]
        participantRows == Flat([i \in DOMAIN state.order |->
            LET listed == listParticipants(state.chats[state.order[i]].participants)
            IN [j \in DOMAIN listed |-> [chatId |-> state.order[i], userId |-> listed[j].id]]])
        historyRows == Flat([i \in DOMAIN state.order |->
            LET history == state.chats[state.order[i]].history
                keys == historyKeys(history)
            IN [j \in DOMAIN keys |->
                   [chatId |-> state.order[i], pairKey |-> keys[j], count |-> history[keys[j]]]]])
        metaRow == [updateOffset |-> state.updateOffset, seed |-> state.seed]
    IN [chatRows |-> chatRows, pollRows |-> pollRows, participantRows |-> participantRows,
        historyRows |-> historyRows, metaRow |-> metaRow]

RECURSIVE buildPolls(_, _)
buildPolls(rows, acc) ==
    IF rows = <<>> THEN acc
    ELSE LET poll == Head(rows)
         IN buildPolls(Tail(rows),
                [pollIndex |-> Put(acc.pollIndex, poll.pollId, poll.chatId),
                 pollsByChat |-> Put(acc.pollsByChat, poll.chatId, poll)])

RECURSIVE buildParticipantsByChat(_, _)
buildParticipantsByChat(rows, acc) ==
    IF rows = <<>> THEN acc
    ELSE LET row == Head(rows)
             current == IF Has(acc, row.chatId) THEN acc[row.chatId] ELSE EmptyMap
         IN buildParticipantsByChat(Tail(rows),
                Put(acc, row.chatId, upsertParticipant(current, Participant(row.userId))))

RECURSIVE buildHistoryByChat(_, _)
buildHistoryByChat(rows, acc) ==
    IF rows = <<>> THEN acc
    ELSE LET row == Head(rows)
             current == IF Has(acc, row.chatId) THEN acc[row.chatId] ELSE EmptyMap
         IN buildHistoryByChat(Tail(rows),
                Put(acc, row.chatId, Put(current, row.pairKey, row.count)))

toChatState(row, poll, participants, history) ==
    [poll |-> poll, participants |-> participants, history |-> history, seed |-> row.seed,
     threadId |-> row.threadId, title |-> row.title,
     inviteLink |-> IF "inviteLink" \in DOMAIN row THEN row.inviteLink ELSE NoLink,
     lastSummaryAt |-> row.lastSummaryAt]

buildStateFromRows(input) ==
    LET polls == buildPolls(input.pollRows, [pollIndex |-> EmptyMap, pollsByChat |-> EmptyMap])
        participantsByChat == buildParticipantsByChat(input.participantRows, EmptyMap)
        historyByChat == buildHistoryByChat(input.historyRows, EmptyMap)
        ids == {input.chatRows[i].chatId : i \in DOMAIN input.chatRows}
        RowOf(chatId) == input.chatRows[CHOOSE i \in DOMAIN input.chatRows :
                                            input.chatRows[i].chatId = chatId]
        chatStates == [chatId \in ids |->
            toChatState(RowOf(chatId),
                IF Has(polls.pollsByChat, chatId) THEN polls.pollsByChat[chatId] ELSE NoPoll,
                IF Has(participantsByChat, chatId) THEN participantsByChat[chatId] ELSE EmptyMap,
                IF Has(historyByChat, chatId) THEN historyByChat[chatId] ELSE EmptyMap)]
    IN [chats |-> chatStates,
        order |-> [i \in DOMAIN input.chatRows |-> input.chatRows[i].chatId],
        pollIndex |-> polls.pollIndex,
        updateOffset |-> IF input.metaRow.updateOffset > 0 THEN input.metaRow.updateOffset ELSE 0,
        seed |-> input.metaRow.seed]

----------------------------------------------------------------------------
(* Effects: the state store and the platform, threaded through a handler as a *)
(* world [cache, db, tg]; fault names the one call of the handler that fails  *)

Faults == {"none", "getChatMember", "sendMessage", "persistThreadId", "sendPoll",
           "stopPoll", "stopPollNetwork", "stopPollBadRequest", "stopPollClosed",
           "stopPollClosedUpper", "stopPollNotFound", "set"}

Result(ok, state, w) == [ok |-> ok, state |-> state, w |-> w]

\* one outbound platform call of the handler and whether the platform accepted it
Sent(w, call, to, text, ok) ==
    [w EXCEPT !.out = Append(w.out, [call |-> call, to |-> to, text |-> text, ok |-> ok])]

stateStoreGetLoaded(w) == buildStateFromRows(w.db)

\* shell/state-store.ts get: Ref.get, the database is not read
stateStoreGet(w) == w.cache

\* shell/state-store.ts set: Ref.set first, then persistState in one transaction
\* sets counts the calls of set made through this world
stateStoreSet(w, next, persisted) ==
    [w EXCEPT !.cache = next,
              !.db = IF persisted THEN buildPersistRows(next) ELSE w.db,
              !.sets = @ + 1]

\* telegram.sendPoll: the platform numbers the polls it creates
sendPoll(w, chatId) ==
    Sent([w EXCEPT !.tg = Append(w.tg, [chatId |-> chatId, status |-> "open"])],
         "sendPoll", chatId, "pollQuestion", TRUE)

\* shell/telegram.ts mapError: a text is its sequence of words
NoError == [tag |-> "none", method |-> "", errorCode |-> 0, description |-> <<>>,
            message |-> <<>>]

TelegramApiError(method, errorCode, description) ==
    [tag |-> "TelegramApiError", method |-> method, errorCode |-> errorCode,
     description |-> description,
     message |-> <<"Call", "to", method, "failed!">> \o description]

TelegramNetworkError ==
    [tag |-> "TelegramNetworkError", method |-> "", errorCode |-> 0, description |-> <<>>,
     message |-> <<"Network", "request", "failed!">>]

\* the stopPoll errors of the platform, by the fault that produces them
StopPollErrors ==
    [fault \in {"stopPoll", "stopPollNetwork", "stopPollBadRequest", "stopPollClosed",
                "stopPollClosedUpper", "stopPollNotFound"} |->
        CASE fault = "stopPoll" ->
                TelegramApiError("stopPoll", 500, <<"Internal", "Server", "Error">>)
          [] fault = "stopPollNetwork" -> TelegramNetworkError
          [] fault = "stopPollBadRequest" ->
                TelegramApiError("stopPoll", 400, <<"Bad", "Request:", "chat", "not", "found">>)
          [] fault = "stopPollClosed" ->
                TelegramApiError("stopPoll", 400,
                    <<"Bad", "Request:", "poll", "has", "already", "been", "closed">>)
          [] fault = "stopPollClosedUpper" ->
                TelegramApiError("stopPoll", 400,
                    <<"BAD", "REQUEST:", "POLL", "HAS", "ALREADY", "BEEN", "CLOSED">>)
          [] fault = "stopPollNotFound" ->
                TelegramApiError("stopPoll", 400,
                    <<"Bad", "Request:", "message", "with", "poll", "to", "stop", "not",
                      "found">>)]

\* telegram.stopPoll: a poll that is not open any more is refused as already
\* closed; a poll closed or deleted by somebody else is not open afterwards
stopPoll(w, chatId, messageId, fault) ==
    IF w.tg[messageId].status # "open"
    THEN [error |-> StopPollErrors["stopPollClosed"],
          w |-> Sent(w, "stopPoll", chatId, "", FALSE)]
    ELSE IF fault \in DOMAIN StopPollErrors
    THEN [error |-> StopPollErrors[fault],
          w |-> Sent([w EXCEPT !.tg[messageId].status =
                         IF fault \in {"stopPollClosed", "stopPollClosedUpper"} THEN "closed"
                         ELSE IF fault = "stopPollNotFound" THEN "deleted" ELSE @],
                     "stopPoll", chatId, "", FALSE)]
    ELSE [error |-> NoError,
          w |-> Sent([w EXCEPT !.tg[messageId].status = "stopped"],
                     "stopPoll", chatId, "", TRUE)]

stopPollClosedMessageFragments ==
    << <<"poll", "has", "already", "been", "closed">>,
       <<"poll", "to", "stop", "not", "found">> >>

toLowerCase(text) ==
    [i \in DOMAIN text |->
        CASE text[i] = "Bad" -> "bad" [] text[i] = "Request:" -> "request:"
          [] text[i] = "Call" -> "call" [] text[i] = "Internal" -> "internal"
          [] text[i] = "Server" -> "server" [] text[i] = "Error" -> "error"
          [] text[i] = "Network" -> "network" [] text[i] = "stopPoll" -> "stoppoll"
          [] text[i] = "BAD" -> "bad" [] text[i] = "REQUEST:" -> "request:"
          [] text[i] = "POLL" -> "poll" [] text[i] = "HAS" -> "has"
          [] text[i] = "ALREADY" -> "already" [] text[i] = "BEEN" -> "been"
          [] text[i] = "CLOSED" -> "closed"
          [] OTHER -> text[i]]

includes(text, fragment) ==
    \E i \in 0..(Len(text) - Len(fragment)) : SubSeq(text, i + 1, i + Len(fragment)) = fragment

isPollAlreadyClosedMessage(message) ==
    \E i \in DOMAIN stopPollClosedMessageFragments :
        includes(toLowerCase(message), stopPollClosedMessageFragments[i])

isPollAlreadyClosedAnyBadRequest(error) ==
    error.tag = "TelegramApiError" /\ error.method = "stopPoll" /\ error.errorCode = 400

isPollAlreadyClosed(error) ==
    CASE error.tag = "TelegramApiError" ->
            IF error.method # "stopPoll" \/ error.errorCode # 400 THEN FALSE
            ELSE isPollAlreadyClosedMessage(IF error.description # <<>> THEN error.description
                                            ELSE error.message)
      [] error.tag = "TelegramNetworkError" -> FALSE

\* app/actions.ts stopPollSafe: stopped, alreadyClosed, or the error propagates
stopPollSafe(w, chatId, messageId, fault) ==
    LET stop == stopPoll(w, chatId, messageId, fault)
    IN [outcome |-> IF stop.error = NoError THEN "stopped"
                    ELSE IF isPollAlreadyClosed(stop.error) THEN "alreadyClosed"
                    ELSE "failed",
        error |-> stop.error, w |-> stop.w]

\* ChatId(`${participant.id}`)
DirectChatId(userId) == DigitChar[userId + 1]

\* the platform calls in w.lost fail; a failed pin is logged and ignored
pinPollMessageBestEffort(w, chatId) ==
    [ok |-> TRUE, w |-> Sent(w, "pinChatMessage", chatId, "poll", "pinChatMessage" \notin w.lost)]

pinSummaryMessageBestEffort(w, chatId) ==
    [ok |-> TRUE,
     w |-> Sent(w, "pinChatMessage", chatId, "summary", "pinChatMessage" \notin w.lost)]

sendDirectMessageFailing(w, assignment) ==
    [ok |-> DirectChatId(assignment.participant.id) \notin w.lost,
     w |-> Sent(w, "sendMessage", DirectChatId(assignment.participant.id),
                "formatDirectPairingMessage",
                DirectChatId(assignment.participant.id) \notin w.lost)]

\* a failed direct message is logged and ignored
sendDirectMessageBestEffort(w, assignment) ==
    [ok |-> TRUE,
     w |-> Sent(w, "sendMessage", DirectChatId(assignment.participant.id),
                "formatDirectPairingMessage",
                DirectChatId(assignment.participant.id) \notin w.lost)]

\* Effect.forEach: one recipient after the other, stopping at a failure
RECURSIVE sendDirectPairingMessages(_, _)
sendDirectPairingMessages(w, assignments) ==
    IF assignments = <<>> THEN [ok |-> TRUE, w |-> w]
    ELSE LET sent == sendDirectMessageBestEffort(w, Head(assignments))
         IN IF ~sent.ok THEN sent ELSE sendDirectPairingMessages(sent.w, Tail(assignments))

createPollPinned(nextState, pinned) == Result(pinned.ok, nextState, pinned.w)

\* sendPoll, startPoll, set, then the pin
createPollStoringFirst(context, w, fault) ==
    IF fault = "sendPoll" \/ Len(w.tg) >= MaxPolls
    THEN Result(FALSE, context.state, stateStoreSet(w, context.state, TRUE))
    ELSE LET sent == sendPoll(w, context.chatId)
             nextState == startPoll(context.state, context.chatId,
                 [pollId |-> Len(sent.tg), messageId |-> Len(sent.tg),
                  chatId |-> context.chatId, summaryDate |-> context.summaryDate,
                  threadId |-> context.chat.threadId])
         IN IF fault = "set"
            THEN Result(FALSE, nextState, stateStoreSet(sent, nextState, FALSE))
            ELSE createPollPinned(nextState,
                     pinPollMessageBestEffort(stateStoreSet(sent, nextState, TRUE),
                                              context.chatId))

createPoll(context, w, fault) ==
    IF fault = "sendPoll" \/ Len(w.tg) >= MaxPolls THEN Result(FALSE, context.state, w)
    ELSE LET sent == sendPoll(w, context.chatId)
             nextState == startPoll(context.state, context.chatId,
                 [pollId |-> Len(sent.tg), messageId |-> Len(sent.tg),
                  chatId |-> context.chatId, summaryDate |-> context.summaryDate,
                  threadId |-> context.chat.threadId])
         IN IF fault = "set"
            THEN Result(FALSE, nextState, stateStoreSet(sent, nextState, FALSE))
            ELSE createPollPinned(nextState,
                     pinPollMessageBestEffort(stateStoreSet(sent, nextState, TRUE),
                                              context.chatId))

buildStopPollEffect(context, w, fault) ==
    IF context.chat.poll = NoPoll THEN [outcome |-> "stopped", error |-> NoError, w |-> w]
    ELSE stopPollSafe(w, context.chatId, context.chat.poll.messageId, fault)

buildSummaryState(context, pairs, seed) ==
    applySummary(context.state, context.chatId, pairs, seed, context.summaryDate)

buildClosedStateSummarized(context) ==
    buildSummaryState(context,
        pairParticipants(listParticipants(context.chat.participants), context.chat.history,
                         context.chat.seed).pairs,
        context.chat.seed)

buildClosedState(context) == finishPoll(context.state, context.chatId)

\* the closed notice, then set
sendClosedNotice(context, w, fault, closedState) ==
    IF fault = "sendMessage"
    THEN Result(FALSE, context.state,
                Sent(w, "sendMessage", context.chatId, "formatPollClosedNoResults", FALSE))
    ELSE Result(fault # "set", closedState,
                stateStoreSet(Sent(w, "sendMessage", context.chatId,
                                   "formatPollClosedNoResults", TRUE),
                              closedState, fault # "set"))

summaryDelivered(nextState, pinned, assignments) ==
    IF ~pinned.ok THEN Result(FALSE, nextState, pinned.w)
    ELSE LET sent == sendDirectPairingMessages(pinned.w, assignments)
         IN Result(sent.ok, nextState, sent.w)

\* the summary message, then set, the pin and the direct messages
buildSummaryMessage(context, w, fault, assignments, nextState) ==
    IF fault = "sendMessage"
    THEN Result(FALSE, context.state,
                Sent(w, "sendMessage", context.chatId, "formatSummary", FALSE))
    ELSE IF fault = "set"
    THEN Result(FALSE, nextState,
                stateStoreSet(Sent(w, "sendMessage", context.chatId, "formatSummary", TRUE),
                              nextState, FALSE))
    ELSE summaryDelivered(nextState,
             pinSummaryMessageBestEffort(
                 stateStoreSet(Sent(w, "sendMessage", context.chatId, "formatSummary", TRUE),
                               nextState, TRUE),
                 context.chatId),
             assignments)

\* stopPoll, then the closed notice or the summary message
summarizeEffect(context, fault, stop, assignments, nextState, closedState) ==
    IF stop.outcome = "failed" THEN Result(FALSE, context.state, stop.w)
    ELSE IF stop.outcome = "alreadyClosed"
    THEN sendClosedNotice(context, stop.w, fault, closedState)
    ELSE buildSummaryMessage(context, stop.w, fault, assignments, nextState)

summarizeAssigned(context, w, fault, pairing, organizerAssignments) ==
    summarizeEffect(context, fault,
        buildStopPollEffect(context, w, fault),
        organizerAssignments.assignments \o assignSoloParticipants(pairing.leftovers),
        buildSummaryState(context, pairing.pairs, organizerAssignments.seed),
        buildClosedState(context))

summarizePaired(context, w, fault, pairing) ==
    summarizeAssigned(context, w, fault, pairing, assignOrganizers(pairing.pairs, pairing.seed))

summarize(context, w, fault) ==
    summarizePaired(context, w, fault,
        pairParticipants(listParticipants(context.chat.participants),
                         context.chat.history, context.chat.seed))

----------------------------------------------------------------------------
(* Commands: app/command-utils.ts, app/commands.ts, app/command-dispatch.ts *)

Commands == {"/settopic", "/poll", "/summary", "/nextpoll", "/setlink", "/leaderboard"}

\* text.trim().split(/\s+/) on the texts the platform delivers here
tokens(text) ==
    CASE text = "/setlink @club" -> <<"/setlink", "@club">>
      [] text = "/setlink https://t.me/club/" -> <<"/setlink", "https://t.me/club/">>
      [] text = "/setlink https://example.com/club" -> <<"/setlink", "https://example.com/club">>
      [] text = "/setlink not-a-link" -> <<"/setlink", "not-a-link">>
      [] OTHER -> <<text>>

normalizeCommand(text) == tokens(text)[1]

parseCommand(text) == IF normalizeCommand(text) \in Commands THEN normalizeCommand(text) ELSE ""

toCommandEnvelope(update) ==
    LET message == update.message
        valid == /\ message # NoMessage
                 /\ isGroupChat(message.chatType)
                 /\ message.from # NoUser
                 /\ parseCommand(message.text) # ""
    IN [valid |-> valid, chatId |-> message.chatId, actorId |-> message.from,
        command |-> parseCommand(message.text), threadId |-> message.messageThreadId,
        text |-> message.text]

requiresAdmin(command) == command \in {"/settopic", "/poll", "/summary", "/setlink"}

adminOnlyReplyOnly(w, chatId, fault, admin) ==
    IF fault = "getChatMember" THEN [ok |-> FALSE, allowed |-> FALSE, w |-> w]
    ELSE IF admin THEN [ok |-> TRUE, allowed |-> TRUE, w |-> w]
    ELSE [ok |-> fault # "sendMessage", allowed |-> TRUE,
          w |-> Sent(w, "sendMessage", chatId, "replyAdminOnly", fault # "sendMessage")]

\* getChatMember, then the admin-only reply to anybody who is not an admin
adminOnly(w, chatId, fault, admin) ==
    IF fault = "getChatMember" THEN [ok |-> FALSE, allowed |-> FALSE, w |-> w]
    ELSE IF admin THEN [ok |-> TRUE, allowed |-> TRUE, w |-> w]
    ELSE [ok |-> fault # "sendMessage", allowed |-> FALSE,
          w |-> Sent(w, "sendMessage", chatId, "replyAdminOnly", fault # "sendMessage")]

allowCommand(w, envelope, fault, admin) ==
    IF requiresAdmin(envelope.command) THEN adminOnly(w, envelope.chatId, fault, admin)
    ELSE [ok |-> TRUE, allowed |-> TRUE, w |-> w]

buildPollContext(zonedDate) ==
    [pollSummaryDate |-> summaryDateForPoll(zonedDate.parts, zonedDate.weekday),
     today |-> formatLocalDate(zonedDate.parts),
     pollWindow |-> nextPollWindow(zonedDate.parts, zonedDate.weekday)]

\* set, then the reply
setTopic(state, chatId, threadId, w, fault) ==
    LET nextState == setThreadId(state, chatId, threadId)
        reply == IF threadId = NoThread THEN "replySetTopicMain" ELSE "replySetTopicThread"
    IN IF fault = "set" THEN Result(FALSE, nextState, stateStoreSet(w, nextState, FALSE))
       ELSE Result(fault # "sendMessage", nextState,
                   Sent(stateStoreSet(w, nextState, TRUE), "sendMessage", chatId, reply,
                        fault # "sendMessage"))

persistThreadId(state, chatId, threadId, w, fault) ==
    LET withChat == ensureChat(state, chatId)
        nextState == setThreadId(withChat, chatId, threadId)
    IN IF withChat.chats[chatId].threadId = threadId THEN Result(TRUE, withChat, w)
       ELSE Result(fault # "persistThreadId", nextState,
                   stateStoreSet(w, nextState, fault # "persistThreadId"))

handlePoll(context, w, fault) ==
    IF context.chat.poll # NoPoll
    THEN Result(fault # "sendMessage", context.state,
                Sent(w, "sendMessage", context.chatId, "replyPollAlreadyActive",
                     fault # "sendMessage"))
    ELSE createPoll(context, w, fault)

handleNextPoll(context, pollWindow, w, fault) ==
    LET text == IF context.chat.poll # NoPoll THEN "replyPollAlreadyActiveWithDate"
                ELSE IF pollWindow.isOpen THEN "replyPollWindowOpen"
                ELSE "replyNextPollWindow"
    IN Result(fault # "sendMessage", context.state,
              Sent(w, "sendMessage", context.chatId, text, fault # "sendMessage"))

extractCommandArg(text) == IF Len(tokens(text)) >= 2 THEN tokens(text)[2] ELSE ""

\* core/links.ts: a user name or a t.me path, normalised to https://t.me/<path>
parseTelegramChatLink(raw) ==
    CASE raw = "@club" -> "https://t.me/club"
      [] raw = "https://t.me/club/" -> "https://t.me/club"
      [] OTHER -> NoLink

handleSetLinkUnchecked(context, w, fault) ==
    LET arg == extractCommandArg(context.commandText)
        parsed == IF arg # "" THEN parseTelegramChatLink(arg) ELSE NoLink
        nextState == setChatInviteLink(context.state, context.chatId, parsed)
    IN IF fault = "set" THEN Result(FALSE, nextState, stateStoreSet(w, nextState, FALSE))
       ELSE Result(fault # "sendMessage", nextState,
                   Sent(stateStoreSet(w, nextState, TRUE), "sendMessage", context.chatId,
                        IF parsed = NoLink THEN "replySetLinkInvalid" ELSE "replySetLinkSaved",
                        fault # "sendMessage"))

\* an invalid link: the reply only; a valid link: set, then the reply
handleSetLink(context, w, fault) ==
    LET arg == extractCommandArg(context.commandText)
        parsed == IF arg # "" THEN parseTelegramChatLink(arg) ELSE NoLink
        nextState == setChatInviteLink(context.state, context.chatId, parsed)
    IN IF parsed = NoLink
       THEN Result(fault # "sendMessage", context.state,
                   Sent(w, "sendMessage", context.chatId, "replySetLinkInvalid",
                        fault # "sendMessage"))
       ELSE IF fault = "set" THEN Result(FALSE, nextState, stateStoreSet(w, nextState, FALSE))
       ELSE Result(fault # "sendMessage", nextState,
                   Sent(stateStoreSet(w, nextState, TRUE), "sendMessage", context.chatId,
                        "replySetLinkSaved", fault # "sendMessage"))

\* the ranking reply; the bot state is not changed
handleLeaderboard(state, envelope, w, fault) ==
    Result(fault # "sendMessage", state,
           Sent(w, "sendMessage", envelope.chatId, "formatLeaderboard", fault # "sendMessage"))

dispatchCommand(command, context, pollContext, w, fault) ==
    CASE command = "/settopic" ->
            setTopic(context.state, context.chatId, context.messageThreadId, w, fault)
      [] command = "/poll" ->
            handlePoll([context EXCEPT !.summaryDate = pollContext.pollSummaryDate], w, fault)
      [] command = "/summary" ->
            summarize([context EXCEPT !.summaryDate = pollContext.today], w, fault)
      [] command = "/nextpoll" -> handleNextPoll(context, pollContext.pollWindow, w, fault)
      [] command = "/setlink" -> handleSetLink(context, w, fault)

prepareChatState(state, envelope, w, fault) ==
    IF envelope.command = "/poll"
    THEN persistThreadId(ensureChat(state, envelope.chatId), envelope.chatId,
                         envelope.threadId, w, fault)
    ELSE Result(TRUE, ensureChat(state, envelope.chatId), w)

dispatchPrepared(pollContext, envelope, prepared, fault) ==
    IF ~prepared.ok THEN prepared
    ELSE dispatchCommand(envelope.command,
             [state |-> prepared.state, chatId |-> envelope.chatId,
              chat |-> prepared.state.chats[envelope.chatId], summaryDate |-> NoDate,
              messageThreadId |-> envelope.threadId, commandText |-> envelope.text],
             pollContext, prepared.w, fault)

dispatchChatCommand(state, pollContext, envelope, w, fault) ==
    dispatchPrepared(pollContext, envelope, prepareChatState(state, envelope, w, fault), fault)

handleAllowed(state, pollContext, envelope, allowed, fault) ==
    IF ~allowed.ok THEN Result(FALSE, state, allowed.w)
    ELSE IF ~allowed.allowed THEN Result(TRUE, state, allowed.w)
    ELSE IF envelope.command = "/leaderboard"
    THEN handleLeaderboard(state, envelope, allowed.w, fault)
    ELSE dispatchChatCommand(state, pollContext, envelope, allowed.w, fault)

handleCommandUpdateGateAll(state, update, pollContext, w, fault, admin) ==
    IF ~toCommandEnvelope(update).valid THEN Result(TRUE, state, w)
    ELSE handleAllowed(state, pollContext, toCommandEnvelope(update),
                       adminOnly(w, toCommandEnvelope(update).chatId, fault, admin), fault)

handleCommandUpdate(state, update, pollContext, w, fault, admin) ==
    IF ~toCommandEnvelope(update).valid THEN Result(TRUE, state, w)
    ELSE handleAllowed(state, pollContext, toCommandEnvelope(update),
                       allowCommand(w, toCommandEnvelope(update), fault, admin), fault)

----------------------------------------------------------------------------
(* Message handling: app/diagnostics.ts *)

isStartCommand(text) == text = "/start" \/ text = "/help"

updateThreadFromStart(state, message) ==
    LET withChat == ensureChat(state, message.chatId)
    IN IF withChat.chats[message.chatId].threadId = message.messageThreadId THEN withChat
       ELSE setThreadId(withChat, message.chatId, message.messageThreadId)

\* allowedIds: the updates whose allowStartCommand check passed (a failed member
\* check counts as refused)
handleMessage(state, update, allowedIds) ==
    LET message == update.message IN
    IF message = NoMessage THEN state
    ELSE IF isGroupChat(message.chatType)
    THEN IF ~isStartCommand(message.text) THEN state
         ELSE IF ~(message.from # NoUser /\ update.updateId \in allowedIds) THEN state
         ELSE updateThreadFromStart(state, message)
    ELSE state

RECURSIVE handleMessages(_, _, _)
handleMessages(state, updates, allowedIds) ==
    IF updates = <<>> THEN state
    ELSE handleMessages(handleMessage(state, Head(updates), allowedIds), Tail(updates),
                        allowedIds)

----------------------------------------------------------------------------
(* Schedule handling: app/program.ts *)

handleDecisionEffect(decision, context, w, fault) ==
    CASE decision.kind = "createPoll" ->
            createPoll([context EXCEPT !.summaryDate = decision.summaryDate], w, fault)
      [] decision.kind = "summarize" ->
            summarize([context EXCEPT !.summaryDate = decision.summaryDate], w, fault)
      [] decision.kind = "noop" -> Result(TRUE, context.state, w)

----------------------------------------------------------------------------
(* Construction: app/program.ts buildRuntime, shell/state-store.ts makeStateStore *)

InitialSeed == 1
StartDate == [year |-> 2026, month |-> 1, day |-> 29]

NoState == [none |-> TRUE]
EmptyLog == [handled |-> {}, cmdFailed |-> 0, entries |-> <<>>, decided |-> <<>>,
             decFailed |-> "", good |-> NoState]

\* loadOrInitState on an empty database: the empty state, persisted, then cached
TickInit ==
    /\ cache = emptyState(InitialSeed)
    /\ db = buildPersistRows(emptyState(InitialSeed))
    /\ pc = "idle"
    /\ cur = emptyState(InitialSeed)
    /\ fallback = emptyState(InitialSeed)
    /\ batch = <<>>
    /\ idx = 1
    /\ todo = <<>>
    /\ zoned = getZonedDate(StartDate)
    /\ clock = StartDate
    /\ tg = <<>>
    /\ log = EmptyLog

NoSched == [chat |-> emptyChatState(InitialSeed), parts |-> StartDate, weekday |-> "Mon",
            result |-> Noop, pollSummaryDate |-> NoDate, done |-> FALSE]
\* sent: polls handed out so far; vote: the last folded vote; recent: per chat and
\* voter, the voter's most recent vote on the chat's open poll (yes, no or none)
\* folded / before: the update ids of the last folded batch and the offset before it
\* stored / persisted: the last state handed to set and whether its write succeeded
\* (loadOrInitState persists the empty state); got: the last result of get
NoCall == [chatId |-> "", command |-> "", text |-> "", admin |-> FALSE, fault |-> "none",
           lost |-> {}]

NoProbe == [state |-> emptyState(InitialSeed), ops |-> 0, last |-> "none",
            stored |-> emptyState(InitialSeed), persisted |-> TRUE, got |-> NoState,
            folded |-> <<>>, before |-> 0,
            sent |-> 0, vote |-> NoPollVote,
            recent |-> [c \in ChatIds |-> [u \in UserIds |-> "none"]],
            done |-> FALSE, call |-> NoCall, pre |-> NoState, res |-> NoState,
            ref |-> NoState]

----------------------------------------------------------------------------
(* The main loop: app/program.ts runOnce, one tick after another *)

\* out: the outbound calls of the running handler; lost: its best-effort calls
\* that the platform refuses
World == [cache |-> cache, db |-> db, tg |-> tg, out |-> <<>>, lost |-> {}, sets |-> 0]

BestEffortCalls == {"pinChatMessage"} \cup {DirectChatId(u) : u \in UserIds}

WorldLosing(lost) == [World EXCEPT !.lost = lost]

GroupMessage(chatId, text, threadId) ==
    [NoMessage EXCEPT !.chatId = chatId, !.chatType = "supergroup", !.text = text,
                      !.from = 1, !.messageThreadId = threadId]

\* what one update of a batch can be, before the platform numbers it
UpdateShapes ==
    {[chatSeen |-> NoChatSeen, message |-> GroupMessage(c, t, NoThread),
      pollVote |-> NoPollVote] : c \in ChatIds, t \in {"/poll", "/summary", "/nextpoll"}}
    \cup
    {[chatSeen |-> NoChatSeen, message |-> GroupMessage(c, t, th), pollVote |-> NoPollVote] :
        c \in ChatIds, t \in {"/settopic", "/start"}, th \in ThreadIds}
    \cup
    {[chatSeen |-> NoChatSeen, message |-> NoMessage,
      pollVote |-> [pollId |-> p, participant |-> u, optionIds |-> o]] :
        p \in 1..MaxPolls, u \in UserIds, o \in {{0}, {}}}

\* getUpdates(offset): consecutive update ids from the offset on
Batches(offset) ==
    UNION {[1..n -> UpdateShapes] : n \in 0..MaxBatch}

Numbered(shapes, offset) ==
    [i \in DOMAIN shapes |->
        [updateId |-> offset + i - 1, chatSeen |-> shapes[i].chatSeen,
         message |-> shapes[i].message, pollVote |-> shapes[i].pollVote]]

StartIds(updates) ==
    {updates[i].updateId : i \in {j \in DOMAIN updates : isStartCommand(updates[j].message.text)}}

logAndIgnoreRethrowing(exit) == exit

\* app/diagnostics.ts: a failure is logged and becomes a success
logAndIgnore(exit) == IF exit = "failure" THEN "success" ELSE exit

\* Effect.forever: the next runOnce after a success, the end after a failure
forever(exit) == IF exit = "success" THEN "idle" ELSE "stopped"

\* get, getUpdates, applyUpdates, handleMessages, set(afterMessages); when the
\* set fails logAndIgnore ends the tick, with the cache already replaced
RunOnceFetchOf(batches) ==
    /\ pc = "idle"
    /\ \E current \in {stateStoreGet(World)} :
       \E shapes \in batches, persisted \in BOOLEAN :
        /\ current.updateOffset + Len(shapes) <= MaxUpdates
        /\ \E allowedIds \in SUBSET StartIds(Numbered(shapes, current.updateOffset)) :
            LET updates == Numbered(shapes, current.updateOffset)
                updated == applyUpdates(current, updates)
                afterMessages == handleMessages(updated, updates, allowedIds)
                stored == stateStoreSet(World, afterMessages, persisted)
            IN /\ cache' = stored.cache
               /\ db' = stored.db
               /\ cur' = afterMessages
               /\ fallback' = afterMessages
               /\ batch' = IF persisted THEN updates ELSE <<>>
               /\ pc' = IF ~persisted THEN forever(logAndIgnore("failure"))
                        ELSE IF updates = <<>> THEN "schedule" ELSE "commands"
               /\ zoned' = IF persisted THEN getZonedDate(clock) ELSE zoned
               /\ UNCHANGED <<idx, todo, clock, tg, log, sched>>

RunOnceFetchStep == RunOnceFetchOf(Batches(stateStoreGet(World).updateOffset))

RunOnceFetch == RunOnceFetchStep /\ UNCHANGED st

\* getUpdates fails: logAndIgnore ends the tick
RunOnceFetchFailedStep ==
    /\ pc = "idle"
    /\ pc' = forever(logAndIgnore("failure"))
    /\ UNCHANGED <<cache, db, cur, fallback, batch, idx, todo, zoned, clock, tg, log, sched>>

RunOnceFetchFailed == RunOnceFetchFailedStep /\ UNCHANGED st

\* one iteration of applyCommandUpdates; a failure leaves the loop and
\* logAndFallback hands afterMessages to handleDecision
HandleCommandStep ==
    /\ pc = "commands"
    /\ \E fault \in Faults, admin \in BOOLEAN, lost \in {{}, BestEffortCalls} :
        \E r \in {handleCommandUpdate(cur, batch[idx], buildPollContext(zoned),
                                      WorldLosing(lost), fault, admin)} :
           /\ cache' = r.w.cache
           /\ db' = r.w.db
           /\ tg' = r.w.tg
           /\ cur' = IF r.ok THEN r.state ELSE fallback
           /\ idx' = idx + 1
           /\ pc' = IF r.ok /\ idx < Len(batch) THEN "commands" ELSE "schedule"
           /\ log' = [log EXCEPT !.handled = log.handled \cup {idx},
                                 !.cmdFailed = IF r.ok THEN log.cmdFailed ELSE idx,
                                 !.good = IF r.ok /\ r.w.db # db THEN r.state ELSE log.good]
           /\ UNCHANGED <<fallback, batch, todo, zoned, clock, sched>>

HandleCommand == HandleCommandStep /\ UNCHANGED st

\* handleDecision: the date of the day and the chats to visit
BeginDecisionStep ==
    /\ pc = "schedule"
    /\ zoned' = getZonedDate(clock)
    /\ todo' = cur.order
    /\ log' = [log EXCEPT !.entries = cur.order]
    /\ pc' = IF cur.order = <<>> THEN "done" ELSE "decide"
    /\ UNCHANGED <<cache, db, cur, fallback, batch, idx, clock, tg, sched>>

BeginDecision == BeginDecisionStep /\ UNCHANGED st

\* one iteration of the loop of handleDecision; a failure leaves the loop and
\* logAndFallback ends handleDecision
DecideChatUnder(faults, losses) ==
    /\ pc = "decide"
    /\ \E fault \in faults, chatId \in {Head(todo)}, lost \in losses :
        \E r \in {handleDecisionEffect(
                     decideSchedule(cur.chats[chatId], zoned.parts, zoned.weekday),
                     [state |-> cur, chatId |-> chatId, chat |-> cur.chats[chatId],
                      summaryDate |-> NoDate], WorldLosing(lost), fault)} :
           /\ cache' = r.w.cache
           /\ db' = r.w.db
           /\ tg' = r.w.tg
           /\ cur' = IF r.ok THEN r.state ELSE cur
           /\ todo' = IF r.ok THEN Tail(todo) ELSE todo
           /\ pc' = IF r.ok /\ Tail(todo) # <<>> THEN "decide" ELSE "done"
           /\ log' = [log EXCEPT !.decided = Append(log.decided, chatId),
                                 !.decFailed = IF r.ok THEN log.decFailed ELSE chatId,
                                 !.good = IF r.ok /\ r.w.db # db THEN r.state ELSE log.good]
           /\ UNCHANGED <<fallback, batch, idx, zoned, clock, sched>>

DecideChatStep == DecideChatUnder(Faults, {{}, BestEffortCalls})

DecideChat == DecideChatStep /\ UNCHANGED st

\* runOnce returns: its locals are gone, the next tick starts from the cache
EndTickStep ==
    /\ pc = "done"
    /\ pc' = forever(logAndIgnore("success"))
    /\ cur' = cache
    /\ fallback' = cache
    /\ batch' = <<>>
    /\ idx' = 1
    /\ todo' = <<>>
    /\ log' = EmptyLog
    /\ zoned' = getZonedDate(StartDate)
    /\ UNCHANGED <<cache, db, clock, tg, sched>>

EndTick == EndTickStep /\ UNCHANGED st

DaysElapsed == Ordinal(clock) - Ordinal(StartDate)

\* midnight passes; the clock is read by buildPollContext and by handleDecision
AdvanceDayWithin(days) ==
    /\ pc \in {"idle", "schedule"}
    /\ DaysElapsed < days
    /\ clock' = NextDay(clock)
    /\ UNCHANGED <<cache, db, pc, cur, fallback, batch, idx, todo, zoned, tg, log, sched>>

AdvanceDayStep == AdvanceDayWithin(MaxDays)

AdvanceDay == AdvanceDayStep /\ UNCHANGED st

Init ==
    /\ TickInit
    /\ sched = NoSched
    /\ st = NoProbe

Next ==
    \/ RunOnceFetch
    \/ RunOnceFetchFailed
    \/ HandleCommand
    \/ BeginDecision
    \/ DecideChat
    \/ EndTick
    \/ AdvanceDay

Spec == Init /\ [][Next]_vars

----------------------------------------------------------------------------
(* The main loop with its ticks observed, for one chat, batches of at most
   one message and the days up to the first poll day: st.ops is the parity of
   the number of ticks started, st.last tells whether the tick last started
   has failed, st.done whether some tick was started after a failed one. *)

LoopChat == "-1001"

LoopBatches ==
    {<<>>} \cup
    {<<[chatSeen |-> NoChatSeen, message |-> GroupMessage(LoopChat, t, NoThread),
        pollVote |-> NoPollVote]>> : t \in {"/poll", "/summary", "/start"}}

LoopStarted(failed) ==
    st' = [st EXCEPT !.ops = 1 - st.ops,
                     !.last = IF failed THEN "failed" ELSE "running",
                     !.done = st.done \/ st.last = "failed"]

LoopFailed(failed) ==
    st' = [st EXCEPT !.last = IF failed THEN "failed" ELSE st.last]

LoopFetch == RunOnceFetchOf(LoopBatches) /\ LoopStarted(pc' \in {"idle", "stopped"})

LoopFetchFailed == RunOnceFetchFailedStep /\ LoopStarted(TRUE)

LoopCommand == HandleCommandStep /\ LoopFailed(log'.cmdFailed # 0)

LoopBeginDecision == BeginDecisionStep /\ UNCHANGED st

\* handleDecision: getZonedDate fails and logAndFallback returns the state
LoopTimeFailed ==
    /\ pc = "schedule"
    /\ pc' = "done"
    /\ todo' = <<>>
    /\ LoopFailed(TRUE)
    /\ UNCHANGED <<cache, db, cur, fallback, batch, idx, zoned, clock, tg, log, sched>>

LoopDecide == DecideChatStep /\ LoopFailed(log'.decFailed # "")

LoopEndTick == EndTickStep /\ UNCHANGED st

LoopAdvanceDay ==
    /\ DaysElapsed < MaxLoopDays
    /\ AdvanceDayStep
    /\ UNCHANGED st

NextLoop ==
    \/ LoopFetch
    \/ LoopFetchFailed
    \/ LoopCommand
    \/ LoopBeginDecision
    \/ LoopTimeFailed
    \/ LoopDecide
    \/ LoopEndTick
    \/ LoopAdvanceDay

\* Effect.forever starts runOnce again as soon as it returns, the long poll
\* returns after longPollSeconds at the latest, and every step of a running
\* tick comes to an outcome
LoopFairness ==
    /\ WF_vars(LoopFetch \/ LoopFetchFailed)
    /\ WF_vars(LoopCommand)
    /\ WF_vars(LoopBeginDecision \/ LoopTimeFailed)
    /\ WF_vars(LoopDecide)
    /\ WF_vars(LoopEndTick)

SpecLoop == Init /\ [][NextLoop]_vars /\ LoopFairness

----------------------------------------------------------------------------
(* Schedule probe: decideSchedule applied to every chat, date and weekday of a window *)

ProbeDates == {addDays(StartDate, k) : k \in 0..(ProbeDays - 1)}
ProbeDateStrings == {formatLocalDate(d) : d \in ProbeDates}

ProbePolls ==
    {NoPoll} \cup {[pollId |-> 1, messageId |-> 1, chatId |-> "-1001", summaryDate |-> d,
                    threadId |-> NoThread] : d \in ProbeDateStrings}

ProbeChats ==
    {[emptyChatState(InitialSeed) EXCEPT !.poll = p, !.lastSummaryAt = l] :
        p \in ProbePolls, l \in {NoDate} \cup ProbeDateStrings}

InitSchedule ==
    /\ TickInit
    /\ st = NoProbe
    /\ \E chat \in ProbeChats, parts \in ProbeDates, weekday \in Weekdays :
          sched = [chat |-> chat, parts |-> parts, weekday |-> weekday,
                   result |-> Noop, pollSummaryDate |-> NoDate, done |-> FALSE]

DecideProbe ==
    /\ ~sched.done
    /\ sched' = [sched EXCEPT !.result = decideSchedule(sched.chat, sched.parts, sched.weekday),
                              !.pollSummaryDate = summaryDateForPoll(sched.parts, sched.weekday),
                              !.done = TRUE]
    /\ UNCHANGED <<tickVars, st>>

NextSchedule == DecideProbe

SpecSchedule == InitSchedule /\ [][NextSchedule]_vars

----------------------------------------------------------------------------
(* State probe: state transitions and folded updates in any order, on any chat ids *)

ProbePollIds == {1, 2}
ProbeSummaryDate == formatLocalDate(addDays(StartDate, 4))

ProbePoll(chatId, pollId) ==
    [pollId |-> pollId, messageId |-> pollId, chatId |-> chatId,
     summaryDate |-> ProbeSummaryDate, threadId |-> NoThread]

ProbeMessage(chatId) ==
    [NoMessage EXCEPT !.chatId = chatId, !.chatType = "supergroup", !.text = "hello",
                      !.from = 1]

ProbeUpdates(state) ==
    {[updateId |-> state.updateOffset, chatSeen |-> NoChatSeen,
      message |-> ProbeMessage(c), pollVote |-> NoPollVote] : c \in ChatIds}
    \cup
    {[updateId |-> state.updateOffset, chatSeen |-> NoChatSeen, message |-> NoMessage,
      pollVote |-> [pollId |-> p, participant |-> u, optionIds |-> o]] :
        p \in ProbePollIds, u \in UserIds, o \in {{0}, {}}}

InitState ==
    /\ TickInit
    /\ sched = NoSched
    /\ st = NoProbe

ProbeStep(next, name) ==
    /\ st.ops < MaxOps
    /\ st' = [st EXCEPT !.state = next, !.ops = st.ops + 1, !.last = name]
    /\ UNCHANGED <<tickVars, sched>>

ProbeEnsureChat == \E c \in ChatIds : ProbeStep(ensureChat(st.state, c), "ensureChat")

ProbeStartPoll ==
    \E c \in ChatIds, p \in ProbePollIds :
        ProbeStep(startPoll(st.state, c, ProbePoll(c, p)), "startPoll")

ProbeApplySummary ==
    \E c \in ChatIds :
        LET chat == IF Has(st.state.chats, c) THEN st.state.chats[c]
                    ELSE emptyChatState(InitialSeed)
            pairing == pairParticipants(listParticipants(chat.participants),
                                        chat.history, chat.seed)
        IN ProbeStep(applySummary(st.state, c, pairing.pairs, pairing.seed, ProbeSummaryDate),
                     "applySummary")

ProbeFinishPoll == \E c \in ChatIds : ProbeStep(finishPoll(st.state, c), "finishPoll")

ProbeApplyUpdates ==
    \E u \in ProbeUpdates(st.state) : ProbeStep(applyUpdates(st.state, <<u>>), "applyUpdates")

NextState ==
    \/ ProbeEnsureChat
    \/ ProbeStartPoll
    \/ ProbeApplySummary
    \/ ProbeFinishPoll
    \/ ProbeApplyUpdates

SpecState == InitState /\ [][NextState]_vars

----------------------------------------------------------------------------
(* Store probe: set and get of the state store on arbitrary states *)

StoreSet ==
    /\ st.ops < MaxOps
    /\ \E persisted \in BOOLEAN :
        \E w \in {stateStoreSet(World, st.state, persisted)} :
           /\ cache' = w.cache
           /\ db' = w.db
           /\ st' = [st EXCEPT !.ops = st.ops + 1, !.last = "set", !.stored = st.state,
                               !.persisted = persisted]
    /\ UNCHANGED <<pc, cur, fallback, batch, idx, todo, zoned, clock, tg, log, sched>>

StoreGet ==
    /\ st.ops < MaxOps
    /\ st' = [st EXCEPT !.ops = st.ops + 1, !.last = "get", !.got = stateStoreGet(World)]
    /\ UNCHANGED <<tickVars, sched>>

NextStore ==
    \/ ProbeEnsureChat
    \/ ProbeStartPoll
    \/ ProbeApplyUpdates
    \/ StoreSet
    \/ StoreGet

SpecStore == InitState /\ [][NextStore]_vars

----------------------------------------------------------------------------
(* Fold probe: applyUpdates on batches whose update ids come in any order *)

ProbeIds == {0, 2, 3, 7}

ProbeFoldShapes ==
    {[chatSeen |-> NoChatSeen, message |-> ProbeMessage("-1001"), pollVote |-> NoPollVote],
     [chatSeen |-> NoChatSeen, message |-> NoMessage,
      pollVote |-> [pollId |-> 1, participant |-> 1, optionIds |-> {0}]]}

ProbeFold ==
    /\ st.ops < MaxOps
    /\ \E n \in 0..ProbeBatch, shape \in ProbeFoldShapes :
        \E ids \in [1..n -> ProbeIds] :
           st' = [st EXCEPT !.state = applyUpdates(st.state,
                                [i \in 1..n |-> [updateId |-> ids[i], chatSeen |-> shape.chatSeen,
                                                 message |-> shape.message,
                                                 pollVote |-> shape.pollVote]]),
                            !.ops = st.ops + 1, !.last = "applyUpdates",
                            !.folded = ids, !.before = st.state.updateOffset]
    /\ UNCHANGED <<tickVars, sched>>

NextFold == ProbeFold

SpecFold == InitState /\ [][NextFold]_vars

----------------------------------------------------------------------------
(* Vote probe: polls opened and closed on registered chats, votes folded in order *)

ProbeOptionIds == {{0}, {1}, {0, 1}, {}}

NoRecent == [u \in UserIds |-> "none"]

InitVotes ==
    /\ TickInit
    /\ sched = NoSched
    /\ st = [NoProbe EXCEPT !.state = ensureChat(ensureChat(emptyState(InitialSeed), "-1001"),
                                                 "-1002")]

\* createPoll: a poll with a fresh platform id on a registered chat
VoteStartPoll ==
    /\ st.ops < MaxOps
    /\ st.sent < MaxProbePolls
    /\ \E c \in ChatIds :
          st' = [st EXCEPT !.state = startPoll(st.state, c, ProbePoll(c, st.sent + 1)),
                           !.ops = st.ops + 1, !.last = "startPoll", !.sent = st.sent + 1,
                           !.recent[c] = NoRecent]
    /\ UNCHANGED <<tickVars, sched>>

VoteFinishPoll ==
    /\ st.ops < MaxOps
    /\ \E c \in ChatIds :
          /\ st.state.chats[c].poll # NoPoll
          /\ st' = [st EXCEPT !.state = finishPoll(st.state, c),
                              !.ops = st.ops + 1, !.last = "finishPoll",
                              !.recent[c] = NoRecent]
    /\ UNCHANGED <<tickVars, sched>>

VoteFold ==
    /\ st.ops < MaxOps
    /\ \E p \in 1..MaxProbePolls, u \in UserIds, o \in ProbeOptionIds :
          st' = [st EXCEPT
                    !.state = applyUpdates(st.state,
                                  <<[updateId |-> st.state.updateOffset, chatSeen |-> NoChatSeen,
                                     message |-> NoMessage,
                                     pollVote |-> [pollId |-> p, participant |-> u,
                                                   optionIds |-> o]]>>),
                    !.ops = st.ops + 1, !.last = "vote",
                    !.vote = [pollId |-> p, participant |-> u, optionIds |-> o],
                    !.recent = [c \in ChatIds |->
                                   IF st.state.chats[c].poll.pollId = p
                                   THEN [st.recent[c] EXCEPT ![u] = IF 0 \in o THEN "yes" ELSE "no"]
                                   ELSE st.recent[c]]]
    /\ UNCHANGED <<tickVars, sched>>

NextVotes ==
    \/ VoteStartPoll
    \/ VoteFinishPoll
    \/ VoteFold

SpecVotes == InitVotes /\ [][NextVotes]_vars

----------------------------------------------------------------------------
(* Handler probe: handleCommandUpdate and the vote fold of runOnce, applied to
   the store and the platform. One hard call of a handler run may fail, or any
   subset of its best-effort calls; the probe follows the runs up to the first
   one that fails or that a non-admin sends. *)

CommandTexts == {"/poll", "/summary", "/settopic", "/nextpoll", "/leaderboard",
                 "/setlink @club", "/setlink", "/setlink not-a-link"}

FailureModes ==
    {[fault |-> f, lost |-> {}] : f \in Faults}
    \cup {[fault |-> "none", lost |-> l] : l \in SUBSET BestEffortCalls}

ProbePollContext == buildPollContext(getZonedDate(StartDate))

EarlierDate == [year |-> 2026, month |-> 1, day |-> 26]

FreshStore ==
    [cache |-> emptyState(InitialSeed), db |-> buildPersistRows(emptyState(InitialSeed)),
     tg |-> <<>>, out |-> <<>>, lost |-> {}, sets |-> 0]

EarlierContext(state) ==
    [state |-> state, chatId |-> "-1001", chat |-> state.chats["-1001"],
     summaryDate |-> formatLocalDate(EarlierDate)]

EarlierPolled ==
    createPoll(EarlierContext(ensureChat(emptyState(InitialSeed), "-1001")), FreshStore, "none")

EarlierVoted ==
    applyUpdates(EarlierPolled.state,
        <<[updateId |-> 0, chatSeen |-> NoChatSeen, message |-> NoMessage,
           pollVote |-> [pollId |-> 1, participant |-> 1, optionIds |-> {0}]],
          [updateId |-> 1, chatSeen |-> NoChatSeen, message |-> NoMessage,
           pollVote |-> [pollId |-> 1, participant |-> 2, optionIds |-> {0}]]>>)

\* the store and the platform as an earlier run of the bot left them: chat -1001
\* polled, both users voted yes, the poll summarized on the Monday before
EarlierRun ==
    summarize(EarlierContext(EarlierVoted),
              stateStoreSet(EarlierPolled.w, EarlierVoted, TRUE), "none").w

\* loadOrInitState: an empty database, or the one an earlier run left
InitHandlers ==
    /\ \E start \in {FreshStore, EarlierRun} :
          /\ cache = start.cache
          /\ db = start.db
          /\ tg = start.tg
    /\ pc = "idle"
    /\ cur = emptyState(InitialSeed)
    /\ fallback = emptyState(InitialSeed)
    /\ batch = <<>>
    /\ idx = 1
    /\ todo = <<>>
    /\ zoned = getZonedDate(StartDate)
    /\ clock = StartDate
    /\ log = EmptyLog
    /\ sched = NoSched
    /\ st = NoProbe

HandlerCall(c, text, admin, mode) ==
    [chatId |-> c, command |-> parseCommand(text), text |-> text, admin |-> admin,
     fault |-> mode.fault, lost |-> mode.lost]

Outcome(r) ==
    [ok |-> r.ok, state |-> r.state, cache |-> r.w.cache, db |-> r.w.db, tg |-> r.w.tg,
     out |-> r.w.out, sets |-> r.w.sets]

\* the answer of the platform to a stopPoll of the chat's poll in this run
StopPollAnswer(state, c, mode) ==
    IF c \notin DOMAIN state.chats THEN NoError
    ELSE IF state.chats[c].poll = NoPoll THEN NoError
    ELSE stopPoll(World, c, state.chats[c].poll.messageId, mode.fault).error

HCommand ==
    /\ st.ops < MaxHandlerOps
    /\ ~st.done
    /\ \E c \in ChatIds, text \in CommandTexts, admin \in BOOLEAN, mode \in FailureModes :
        \E update \in {[updateId |-> cache.updateOffset, chatSeen |-> NoChatSeen,
                         message |-> GroupMessage(c, text, NoThread),
                         pollVote |-> NoPollVote]} :
        \E r \in {handleCommandUpdate(cache, update, ProbePollContext,
                                      WorldLosing(mode.lost), mode.fault, admin)} :
        \E ref \in {IF mode.lost = {} THEN r
                    ELSE handleCommandUpdate(cache, update, ProbePollContext, World,
                                             mode.fault, admin)} :
           /\ cache' = r.w.cache
           /\ db' = r.w.db
           /\ tg' = r.w.tg
           /\ st' = [st EXCEPT !.ops = st.ops + 1, !.last = "command",
                               !.done = ~admin \/ mode.fault # "none" \/ mode.lost # {},
                               !.call = HandlerCall(c, text, admin, mode),
                               !.pre = [state |-> cache, db |-> db, tg |-> tg,
                                        answer |-> StopPollAnswer(cache, c, mode)],
                               !.res = Outcome(r),
                               !.ref = Outcome(ref)]
    /\ UNCHANGED <<pc, cur, fallback, batch, idx, todo, zoned, clock, log, sched>>

\* the votes of one batch: some users, in ascending order, each voting once on one poll
VotesOn(p, answers) ==
    [i \in DOMAIN Ascending(DOMAIN answers) |->
        [pollId |-> p, participant |-> Ascending(DOMAIN answers)[i],
         optionIds |-> answers[Ascending(DOMAIN answers)[i]]]]

VoteBatches ==
    {VotesOn(p, answers) :
        p \in 1..MaxPolls,
        answers \in UNION {[voters -> {{0}, {}}] : voters \in SUBSET UserIds \ {{}}}}

\* runOnce on a batch of votes: applyUpdates, then set
HVote ==
    /\ st.ops < MaxHandlerOps
    /\ ~st.done
    /\ \E votes \in VoteBatches :
        \E next \in {applyUpdates(cache,
                          [i \in DOMAIN votes |->
                              [updateId |-> cache.updateOffset + i - 1,
                               chatSeen |-> NoChatSeen, message |-> NoMessage,
                               pollVote |-> votes[i]]])} :
           /\ cache' = next
           /\ db' = buildPersistRows(next)
           /\ st' = [st EXCEPT !.ops = st.ops + 1, !.last = "vote", !.call = NoCall,
                               !.pre = NoState, !.res = NoState, !.ref = NoState]
    /\ UNCHANGED <<pc, cur, fallback, batch, idx, todo, zoned, clock, tg, log, sched>>

NextHandlers ==
    \/ HCommand
    \/ HVote

SpecHandlers == InitHandlers /\ [][NextHandlers]_vars

----------------------------------------------------------------------------
(* Action probe: createPoll and summarize of app/actions.ts called on the
   stored state, with votes folded in between, each call with one fault or
   with best-effort calls refused. st.pre is the store and the platform before
   the last call, st.res its outcome. *)

\* the store of a chat that is registered, of one whose poll both users have
\* answered, and of one whose poll has been summarized
ActionStarts ==
    {stateStoreSet(FreshStore, ensureChat(emptyState(InitialSeed), "-1001"), TRUE),
     stateStoreSet(EarlierPolled.w, EarlierVoted, TRUE),
     EarlierRun}

InitActions ==
    /\ TickInit
    /\ sched = NoSched
    /\ st = NoProbe

\* loadOrInitState finds the state an earlier run left
ActLoad ==
    /\ st.last = "none"
    /\ \E start \in ActionStarts :
          /\ cache' = start.cache
          /\ db' = start.db
          /\ tg' = start.tg
    /\ st' = [st EXCEPT !.last = "load"]
    /\ UNCHANGED <<pc, cur, fallback, batch, idx, todo, zoned, clock, log, sched>>

ActionContext(c) ==
    [state |-> cache, chatId |-> c, chat |-> cache.chats[c], summaryDate |-> ProbeSummaryDate]

ActionDone(name, c, mode, r) ==
    /\ cache' = r.w.cache
    /\ db' = r.w.db
    /\ tg' = r.w.tg
    /\ st' = [st EXCEPT !.ops = st.ops + 1, !.last = name,
                        !.call = [NoCall EXCEPT !.chatId = c, !.fault = mode.fault,
                                                !.lost = mode.lost],
                        !.pre = [state |-> cache, db |-> db, tg |-> tg],
                        !.res = Outcome(r)]
    /\ UNCHANGED <<pc, cur, fallback, batch, idx, todo, zoned, clock, log, sched>>

ActCreatePoll ==
    /\ st.last # "none"
    /\ st.ops < MaxActionOps
    /\ Len(tg) < MaxPolls
    /\ \E c \in DOMAIN cache.chats, mode \in FailureModes :
        \E r \in {createPoll(ActionContext(c), WorldLosing(mode.lost), mode.fault)} :
            ActionDone("createPoll", c, mode, r)

ActSummarize ==
    /\ st.last # "none"
    /\ st.ops < MaxActionOps
    /\ \E c \in DOMAIN cache.chats, mode \in FailureModes :
        \E r \in {summarize(ActionContext(c), WorldLosing(mode.lost), mode.fault)} :
            ActionDone("summarize", c, mode, r)

\* runOnce on a batch of votes: applyUpdates, then set
ActVote ==
    /\ st.last # "none"
    /\ st.ops < MaxActionOps
    /\ \E votes \in VoteBatches :
        \E next \in {applyUpdates(cache,
                          [i \in DOMAIN votes |->
                              [updateId |-> cache.updateOffset + i - 1,
                               chatSeen |-> NoChatSeen, message |-> NoMessage,
                               pollVote |-> votes[i]]])} :
           /\ cache' = next
           /\ db' = buildPersistRows(next)
           /\ st' = [st EXCEPT !.ops = st.ops + 1, !.last = "vote", !.call = NoCall,
                               !.pre = NoState, !.res = NoState]
    /\ UNCHANGED <<pc, cur, fallback, batch, idx, todo, zoned, clock, tg, log, sched>>

NextActions ==
    \/ ActLoad
    \/ ActCreatePoll
    \/ ActSummarize
    \/ ActVote

SpecActions == InitActions /\ [][NextActions]_vars

----------------------------------------------------------------------------
(* Calendar probe: the ticks of the weeks after a start, with no update arriving.
   st.last is the kind of the last schedule decision, st.done whether a tick
   decided on the day of the clock, st.ops the days that passed without one *)

\* loadOrInitState: chat -1001 registered and summarized by an earlier run, or its
\* poll of that run still open
CalendarStarts ==
    {EarlierRun, EarlierPolled.w}

InitCalendar ==
    /\ \E start \in CalendarStarts :
          /\ cache = start.cache
          /\ db = start.db
          /\ tg = start.tg
          /\ cur = start.cache
          /\ fallback = start.cache
    /\ pc = "idle"
    /\ batch = <<>>
    /\ idx = 1
    /\ todo = <<>>
    /\ zoned = getZonedDate(StartDate)
    /\ clock = StartDate
    /\ log = EmptyLog
    /\ sched = NoSched
    /\ st = NoProbe

CalFetch == RunOnceFetchOf({<<>>}) /\ UNCHANGED st

CalBeginDecision == BeginDecisionStep /\ UNCHANGED st

\* the failures that keep a poll from being sent or summarized
CalendarFaults == {"none", "sendPoll", "stopPoll", "sendMessage"}

CalDecide ==
    /\ DecideChatUnder(CalendarFaults, {{}})
    /\ st' = [st EXCEPT !.last = decideSchedule(cur.chats[Head(todo)], zoned.parts,
                                                zoned.weekday).kind,
                        !.done = TRUE]

CalEndTick == EndTickStep /\ UNCHANGED st

\* midnight passes after the ticks of the day, or after a day on which the bot
\* was not running
CalAdvanceDay ==
    /\ AdvanceDayWithin(MaxCalendarDays)
    /\ \/ st.done /\ st' = [st EXCEPT !.done = FALSE]
       \/ ~st.done /\ st.ops < MaxIdleDays /\ st' = [st EXCEPT !.ops = @ + 1]

NextCalendar ==
    \/ CalFetch
    \/ CalBeginDecision
    \/ CalDecide
    \/ CalEndTick
    \/ CalAdvanceDay

\* handleDecision returns: the one step that takes the tick out of its loop over
\* the chats, which hold the single chat -1001 here
DecisionReturns == pc = "decide" /\ pc' = "done"

\* Effect.forever starts runOnce again as soon as it returns, every step of a
\* running tick comes to an outcome, and midnight comes however often a tick is
\* in its decisions at that moment
CalendarFairness ==
    /\ WF_vars(CalFetch)
    /\ WF_vars(CalBeginDecision)
    /\ WF_pc(DecisionReturns)
    /\ WF_vars(CalEndTick)
    /\ SF_vars(CalAdvanceDay)

SpecCalendar == InitCalendar /\ [][NextCalendar]_vars /\ CalendarFairness

----------------------------------------------------------------------------
(* Profiles: core/profiles.ts, the profile transitions of core/state.ts and the
   private conversation of app/diagnostics.ts *)

\* the null of normalizeProfileText: no trimmed text equals it
NoProfileText == "(null)"

\* the texts a private chat sends here, with text.trim() of each
trim(text) ==
    CASE text = "  hello  " -> "hello"
      [] text = "   " -> ""
      [] OTHER -> text

normalizeProfileText(text) == IF trim(text) = "" THEN NoProfileText ELSE trim(text)

profileKey(userId) == toString(userId)

upsertProfile(profiles, profile) == Put(profiles, profileKey(profile.userId), profile)

markProfileEditPending(pending, chatId) == Put(pending, chatId, TRUE)

clearProfileEditPending(pending, chatId) == Remove(pending, chatId)

isProfileEditPending(pending, chatId) == Has(pending, chatId) /\ pending[chatId] = TRUE

setUserProfile(state, profile) ==
    [state EXCEPT !.profiles = upsertProfile(state.profiles, profile)]

markProfileEdit(state, chatId) ==
    [state EXCEPT !.pendingProfileEdits = markProfileEditPending(state.pendingProfileEdits, chatId)]

clearProfileEditKept(state, chatId) == state

clearProfileEdit(state, chatId) ==
    [state EXCEPT !.pendingProfileEdits = clearProfileEditPending(state.pendingProfileEdits, chatId)]

isProfileEditActive(state, chatId) == isProfileEditPending(state.pendingProfileEdits, chatId)

\* the bot state with the two maps of the profile flow
emptyProfileState(seed) ==
    emptyState(seed) @@ [profiles |-> EmptyMap, pendingProfileEdits |-> EmptyMap]

\* the labels of the private keyboard: the profile entry, its legacy alias and
\* the organizer entry
ProfileLabels == {"fill-profile", "edit-profile"}
OrganizerLabel == "organizer"

Replied(state, out) == [state |-> state, out |-> out]

\* a message of a private chat: /start, a keyboard label, or text that is
\* captured while the chat is pending
handlePrivateMessage(state, message) ==
    IF message.chatType # "private" THEN Replied(state, <<>>)
    ELSE IF isStartCommand(message.text)
    THEN Replied(state, <<"formatPrivateStartReply">>)
    ELSE IF message.text \in ProfileLabels
    THEN Replied(markProfileEdit(state, message.chatId),
                 <<"formatProfileIntro", "formatProfileWidget">>)
    ELSE IF message.text = OrganizerLabel THEN Replied(state, <<"formatOrganizerGuide">>)
    ELSE IF ~isProfileEditActive(state, message.chatId) THEN Replied(state, <<>>)
    ELSE IF normalizeProfileText(message.text) = NoProfileText THEN Replied(state, <<>>)
    ELSE Replied(clearProfileEdit(
                     setUserProfile(state, [userId |-> message.from,
                                            text |-> normalizeProfileText(message.text)]),
                     message.chatId),
                 <<"formatProfileSaved">>)

\* a press of an inline button of a private chat
handleCallbackQuery(state, chatId, data) ==
    IF data \in ProfileLabels
    THEN Replied(markProfileEdit(state, chatId), <<"formatProfileIntro", "formatProfileWidget">>)
    ELSE Replied(state, <<>>)

----------------------------------------------------------------------------
(* Profile probe: messages and button presses of two private chats, in any
   order. st.pre is the state before the last update, st.got what the update
   before it did *)

PrivateChats == {"2006", "2007"}

PrivateTexts ==
    {"/start", "hello", "  hello  ", "   ", "about me", OrganizerLabel} \cup ProfileLabels

PrivateMessage(chatId, text, from) ==
    [NoMessage EXCEPT !.chatId = chatId, !.chatType = "private", !.text = text, !.from = from]

InitProfile ==
    /\ TickInit
    /\ sched = NoSched
    /\ st = [NoProbe EXCEPT !.state = emptyProfileState(InitialSeed)]

ProfileStep(r, name, chatId, text, from) ==
    /\ st.ops < MaxProfileOps
    /\ st' = [st EXCEPT !.state = r.state, !.ops = st.ops + 1, !.last = name,
                        !.pre = st.state,
                        !.call = [NoCall EXCEPT !.chatId = chatId, !.text = text],
                        !.res = [out |-> r.out, from |-> from],
                        !.got = [last |-> st.last, chatId |-> st.call.chatId,
                                 out |-> IF st.last = "none" THEN <<>> ELSE st.res.out]]
    /\ UNCHANGED <<tickVars, sched>>

ProfMessage ==
    \E c \in PrivateChats, text \in PrivateTexts, from \in UserIds :
        ProfileStep(handlePrivateMessage(st.state, PrivateMessage(c, text, from)),
                    "message", c, text, from)

ProfCallback ==
    \E c \in PrivateChats, data \in {"fill-profile", "other"} :
        ProfileStep(handleCallbackQuery(st.state, c, data), "callback", c, data, NoUser)

NextProfile ==
    \/ ProfMessage
    \/ ProfCallback

SpecProfile == InitProfile /\ [][NextProfile]_vars

----------------------------------------------------------------------------
(* Chat probe: every state transition of core/state.ts and the vote fold, in
   any order and on any chat id, from the empty state or from the state an
   earlier run left. st.pre is the state before the last transition and
   st.call.chatId the chat it was aimed at. *)

ProbeThreads == {NoThread} \cup ThreadIds
ProbeTitles == {NoTitle, "Coffee"}
ProbeLinks == {NoLink, "https://t.me/club"}

\* Date.now() in milliseconds, written hi * 2^31 + lo with 0 <= lo < 2^31: the
\* instant of 2026 that is 835 times the modulus (1 793 148 845 245 ms), and
\* the milliseconds before and after it
BootTimes == {[hi |-> 834, lo |-> 2147482812], [hi |-> 834, lo |-> 2147482813],
              [hi |-> 834, lo |-> 2147482814]}

AddMod(x, y) == IF x >= modulus - y THEN x - (modulus - y) ELSE x + y

\* now % 2_147_483_647, with 2^31 = modulus + 1
bootSeed(now) == AddMod(now.hi % modulus, now.lo % modulus)

\* first boot: the state store finds no state and starts from emptyState(seed)
buildRuntime(now) == emptyState(bootSeed(now))

InitChat ==
    /\ TickInit
    /\ sched = NoSched
    /\ \E start \in {buildRuntime(now) : now \in BootTimes} \cup {EarlierRun.cache} :
          st = [NoProbe EXCEPT !.state = start]

\* st.res holds the arguments of the call besides the chat id
ChatStepWith(next, name, chatId, args) ==
    /\ st.ops < MaxChatOps
    /\ st' = [st EXCEPT !.state = next, !.ops = st.ops + 1, !.last = name,
                        !.pre = st.state, !.call = [NoCall EXCEPT !.chatId = chatId],
                        !.res = args]
    /\ UNCHANGED <<tickVars, sched>>

ChatStep(next, name, chatId) == ChatStepWith(next, name, chatId, NoState)

ChatEnsureChat == \E c \in ChatIds : ChatStep(ensureChat(st.state, c), "ensureChat", c)

\* the platform never hands out the id of a poll the state still knows
FreshPollIds(state) ==
    {p \in 1..MaxProbePolls :
        /\ ~Has(state.pollIndex, p)
        /\ \A c \in DOMAIN state.chats : state.chats[c].poll.pollId # p}

ChatStartPoll ==
    \E c \in ChatIds, p \in FreshPollIds(st.state) :
        ChatStep(startPoll(st.state, c, ProbePoll(c, p)), "startPoll", c)

ChatApplySummary ==
    \E c \in ChatIds :
        \E chat \in {IF Has(st.state.chats, c) THEN st.state.chats[c]
                     ELSE emptyChatState(InitialSeed)} :
        \E pairing \in {pairParticipants(listParticipants(chat.participants),
                                         chat.history, chat.seed)} :
        \E seed \in {pairing.seed, nextSeed(pairing.seed)} :
            ChatStepWith(applySummary(st.state, c, pairing.pairs, seed, ProbeSummaryDate),
                         "applySummary", c,
                         [pairs |-> pairing.pairs, seed |-> seed,
                          summaryDate |-> ProbeSummaryDate])

ChatFinishPoll == \E c \in ChatIds : ChatStep(finishPoll(st.state, c), "finishPoll", c)

ChatSetThreadId ==
    \E c \in ChatIds, t \in ProbeThreads :
        ChatStep(setThreadId(st.state, c, t), "setThreadId", c)

ChatSetChatTitle ==
    \E c \in ChatIds, t \in ProbeTitles :
        ChatStep(setChatTitle(st.state, c, t), "setChatTitle", c)

ChatSetChatInviteLink ==
    \E c \in ChatIds, l \in ProbeLinks :
        ChatStep(setChatInviteLink(st.state, c, l), "setChatInviteLink", c)

\* a vote goes to the chat the poll index names, if any
ChatVote ==
    \E p \in 1..MaxProbePolls, u \in UserIds, o \in {{0}, {}} :
        ChatStep(applyUpdates(st.state,
                     <<[updateId |-> st.state.updateOffset, chatSeen |-> NoChatSeen,
                        message |-> NoMessage,
                        pollVote |-> [pollId |-> p, participant |-> u, optionIds |-> o]]>>),
                 "vote", IF Has(st.state.pollIndex, p) THEN st.state.pollIndex[p] ELSE "")

\* an update of one chat folded in: a message of the chat, or the bot's
\* membership of it, with the chat's title as the platform reports it
ChatSeenOrMessage ==
    \E c \in ChatIds, t \in ProbeTitles, seen \in BOOLEAN :
        ChatStep(applyUpdates(st.state,
                     <<[updateId |-> st.state.updateOffset,
                        chatSeen |-> IF seen
                                     THEN [chatId |-> c, chatType |-> "supergroup",
                                           chatTitle |-> t]
                                     ELSE NoChatSeen,
                        message |-> IF seen THEN NoMessage
                                    ELSE [GroupMessage(c, "hello", NoThread)
                                            EXCEPT !.chatTitle = t],
                        pollVote |-> NoPollVote]>>),
                 "update", c)

NextChat ==
    \/ ChatEnsureChat
    \/ ChatStartPoll
    \/ ChatApplySummary
    \/ ChatFinishPoll
    \/ ChatSetThreadId
    \/ ChatSetChatTitle
    \/ ChatSetChatInviteLink
    \/ ChatVote
    \/ ChatSeenOrMessage

SpecChat == InitChat /\ [][NextChat]_vars

----------------------------------------------------------------------------
(* Pairing probe: the pure functions of core/pairing.ts and core/rng.ts on
   chosen inputs. st.pre holds the input (a list of participants with distinct
   ids in any order, a history, a seed), st.res the value returned. *)

PairUsers == 1..MaxPairUsers

\* the lists of distinct participants, in every order
ParticipantLists ==
    UNION {{[i \in 1..n |-> Participant(f[i])] :
               f \in {g \in [1..n -> PairUsers] :
                         \A i, j \in 1..n : i # j => g[i] # g[j]}} : n \in 0..MaxPairUsers}

PairKeys == {<<a, b>> : a \in PairUsers, b \in PairUsers} \ {<<a, a>> : a \in PairUsers}

\* histories of at most two earlier pairs, met once or twice, under canonical keys
ProbeHistories ==
    UNION {[keys -> 1..2] :
              keys \in {k \in SUBSET {key \in PairKeys : key[1] < key[2]} : Cardinality(k) <= 2}}

\* negative, zero, positive, the multiples of the modulus and its neighbours
ProbeSeeds == {-modulus, 1 - modulus, -1, 0, 1, multiplier, modulus - 1, modulus}

InitPairing ==
    /\ TickInit
    /\ sched = NoSched
    /\ \E participants \in ParticipantLists, history \in ProbeHistories, seed \in ProbeSeeds :
          st = [NoProbe EXCEPT !.pre = [participants |-> participants, history |-> history,
                                        seed |-> seed]]

PairStep(res, name) ==
    /\ st.last = "none"
    /\ st' = [st EXCEPT !.res = res, !.last = name, !.ops = 1]
    /\ UNCHANGED <<tickVars, sched>>

PairPairParticipants ==
    PairStep(pairParticipants(st.pre.participants, st.pre.history, st.pre.seed),
             "pairParticipants")

\* one pair of the first two participants, recorded on an empty history in
\* either order of its members
PairUpdateHistory ==
    /\ Len(st.pre.participants) >= 2
    /\ LET a == st.pre.participants[1]
           b == st.pre.participants[2]
       IN PairStep([forward |-> updateHistory(EmptyMap, <<[kind |-> "pair", members |-> <<a, b>>]>>),
                    backward |-> updateHistory(EmptyMap, <<[kind |-> "pair", members |-> <<b, a>>]>>)],
                   "updateHistory")

PairNextSeed == PairStep(nextSeed(st.pre.seed), "nextSeed")

PairBuildPairs ==
    PairStep(buildPairs(st.pre.participants, st.pre.history, st.pre.seed), "buildPairs")

\* the participants grouped as summarize would hand them over: pairs of
\* neighbours, or the first three as a triple followed by pairs of neighbours
Grouped(participants, from) ==
    [i \in 1..((Len(participants) - from + 1) \div 2) |->
        [kind |-> "pair",
         members |-> <<participants[from + 2 * i - 2], participants[from + 2 * i - 1]>>]]

ProbePairings(participants) ==
    {Grouped(participants, 1)} \cup
    (IF Len(participants) < 3 THEN {}
     ELSE {<<[kind |-> "triple",
              members |-> <<participants[1], participants[2], participants[3]>>]>>
           \o Grouped(participants, 4)})

PairAssignOrganizers ==
    \E pairs \in ProbePairings(st.pre.participants) :
        \E built \in {assignOrganizers(pairs, st.pre.seed)} :
            PairStep([pairs |-> pairs, assignments |-> built.assignments, seed |-> built.seed],
                     "assignOrganizers")

NextPairing ==
    \/ PairPairParticipants
    \/ PairUpdateHistory
    \/ PairNextSeed
    \/ PairBuildPairs
    \/ PairAssignOrganizers

SpecPairing == InitPairing /\ [][NextPairing]_vars

----------------------------------------------------------------------------
(* Properties of the poll index *)

PollIndexOf(state, pollId, chatId) ==
    Has(state.pollIndex, pollId) /\ state.pollIndex[pollId] = chatId

OpenPollOf(state, pollId, chatId) ==
    /\ Has(state.chats, chatId)
    /\ state.chats[chatId].poll # NoPoll
    /\ state.chats[chatId].poll.pollId = pollId

\* C2: after any sequence of ensureChat, startPoll, applySummary, finishPoll and
\* applyUpdates from the empty state, the poll index has an entry pollId -> chatId
\* if and only if chat chatId exists and its poll is non-null with that pollId.
C2_PollIndexExact ==
    \A pollId \in ProbePollIds, chatId \in ChatIds :
        PollIndexOf(st.state, pollId, chatId) <=> OpenPollOf(st.state, pollId, chatId)

----------------------------------------------------------------------------
(* Properties of the schedule engine *)

ProbeToday == formatLocalDate(sched.parts)

\* the first Monday strictly after a calendar date, by the calendar's own day count
FirstMondayAfter(parts) ==
    formatLocalDate(addDays(parts, CHOOSE k \in 1..7 : WeekdayOf(addDays(parts, k)) = "Mon"))

\* C3: for a chat with an open poll, on every day that is not a Monday equal to
\* the poll's summaryDate, decideSchedule returns noop (never createPoll, never
\* summarize).
C3_OpenPollUntouched ==
    (/\ sched.done
     /\ sched.chat.poll # NoPoll
     /\ ~(sched.weekday = "Mon" /\ sched.chat.poll.summaryDate = ProbeToday))
        => sched.result = Noop

C3_Witness ==
    /\ sched.done
    /\ sched.chat.poll # NoPoll
    /\ sched.chat.lastSummaryAt # ProbeToday
    /\ sched.weekday = "Mon"
    /\ sched.chat.poll.summaryDate # ProbeToday
    /\ sched.result.kind = "noop"

\* C4: for a chat whose open poll has summaryDate equal to today, on a Monday
\* with lastSummaryAt different from today, decideSchedule returns summarize with
\* summaryDate = today.
C4_SummarizeOnDueMonday ==
    (/\ sched.done
     /\ sched.chat.poll # NoPoll
     /\ sched.chat.poll.summaryDate = ProbeToday
     /\ sched.weekday = "Mon"
     /\ sched.chat.lastSummaryAt # ProbeToday)
        => sched.result = [kind |-> "summarize", summaryDate |-> ProbeToday]

C4_Witness ==
    /\ sched.done
    /\ sched.chat.poll # NoPoll
    /\ sched.chat.poll.summaryDate = ProbeToday
    /\ sched.weekday = "Mon"
    /\ WeekdayOf(sched.parts) = "Mon"
    /\ sched.chat.lastSummaryAt # ProbeToday
    /\ sched.chat.lastSummaryAt # NoDate
    /\ sched.result.kind = "summarize"

\* C5: for a chat with no open poll and lastSummaryAt different from today, on a
\* Friday, Saturday or Sunday, decideSchedule returns createPoll whose summaryDate
\* is the first Monday after today.
C5_CreatePollForNextMonday ==
    (/\ sched.done
     /\ sched.chat.poll = NoPoll
     /\ sched.chat.lastSummaryAt # ProbeToday
     /\ sched.weekday = WeekdayOf(sched.parts)
     /\ sched.weekday \in {"Fri", "Sat", "Sun"})
        => sched.result = [kind |-> "createPoll", summaryDate |-> FirstMondayAfter(sched.parts)]

C5_Witness ==
    /\ sched.done
    /\ sched.chat.poll = NoPoll
    /\ sched.chat.lastSummaryAt # ProbeToday
    /\ sched.weekday = WeekdayOf(sched.parts)
    /\ sched.weekday = "Sat"
    /\ sched.parts.month = 1
    /\ sched.result.kind = "createPoll"
    /\ sched.result.summaryDate = <<"2", "0", "2", "6", "-", "0", "2", "-", "0", "2">>

----------------------------------------------------------------------------
(* Properties of the main loop *)

OpenPolls(chatId) == {i \in DOMAIN tg : tg[i].chatId = chatId /\ tg[i].status = "open"}

\* C1: a chat has at most one open poll at a time: over any sequence of ticks,
\* /poll commands and schedule decisions, failing steps included, a new poll is
\* sent to a chat only when every poll sent to it before has been stopped or
\* reported already closed.
C1_AtMostOneOpenPoll ==
    \A chatId \in ChatIds : Cardinality(OpenPolls(chatId)) <= 1

Decided(chatId) == \E j \in DOMAIN log.decided : log.decided[j] = chatId

\* C7: within one tick, if executing the schedule decision of one chat fails,
\* the decisions of all chats after it in iteration order are still computed and
\* executed in that tick.
C7_LaterChatsStillDecided ==
    (pc = "done" /\ log.decFailed # "")
        => \A i \in DOMAIN log.entries : Decided(log.entries[i])

\* C8: within one tick, if handling one command of the batch fails, every later
\* command of the batch is still dispatched in that tick.
C8_LaterCommandsStillDispatched ==
    (pc = "done" /\ log.cmdFailed # 0)
        => \A j \in DOMAIN batch :
              (j > log.cmdFailed /\ toCommandEnvelope(batch[j]).valid) => j \in log.handled

\* C9: a failed command or schedule action never corrupts the cache: once a
\* successful command or schedule action of the tick has persisted a state, every
\* later write of the tick is derived from that state, never from an older
\* snapshot, so the cache at the end of the tick still contains its changes.
C9_WritesDeriveFromLatestPersisted ==
    [][(pc \in {"commands", "decide"} /\ log.good # NoState /\ cache' # cache)
          => cur = log.good]_vars

\* C10: the cache mirrors the database: whenever set has returned, successfully
\* or with a persistence error, the state loaded from the database equals the
\* cached state returned by get.
C10_CacheMirrorsDatabase == buildStateFromRows(db) = cache

----------------------------------------------------------------------------
(* Properties of the state store *)

\* C11: set(next) replaces the cached state with next and then writes next to
\* the database before it returns; get returns the most recently set state from
\* the cache and does not read the database.
C11_SetThenGet ==
    /\ cache = st.stored
    /\ st.persisted => db = buildPersistRows(st.stored)
    /\ st.last = "get" => st.got = st.stored

C11_Witness ==
    /\ st.last = "get"
    /\ ~st.persisted
    /\ st.got = st.stored
    /\ st.stored.order # <<>>
    /\ buildStateFromRows(db) # st.stored

----------------------------------------------------------------------------
(* Properties of update folding *)

\* C12: updateOffset only ever advances: across any sequence of folded update
\* batches, empty or not, with ids in any order, its value never decreases.
C12_UpdateOffsetNeverDecreases ==
    [][st'.state.updateOffset >= st.state.updateOffset]_vars

FoldedIds == {st.folded[i] : i \in DOMAIN st.folded}

\* C13: after folding a non-empty batch updateOffset is the maximum updateId of
\* the batch plus one, whatever the order of the ids; folding an empty batch
\* leaves updateOffset unchanged.
C13_OffsetIsMaxIdPlusOne ==
    st.last = "applyUpdates" =>
        IF st.folded = <<>> THEN st.state.updateOffset = st.before
        ELSE /\ st.state.updateOffset - 1 \in FoldedIds
             /\ \A id \in FoldedIds : id <= st.state.updateOffset - 1

C13_Witness ==
    /\ st.last = "applyUpdates"
    /\ st.folded = <<3, 7, 2>>
    /\ st.state.updateOffset = 8

\* C14: for the poll currently open in a chat, after folding any sequence of
\* votes in order, a voter is in the chat's participants if and only if their
\* most recent vote on that poll included option 0.
C14_ParticipantIffLastVoteYes ==
    \A c \in ChatIds, u \in UserIds :
        st.state.chats[c].poll # NoPoll =>
            (Has(st.state.chats[c].participants, u) <=> st.recent[c][u] = "yes")

C14_Witness ==
    /\ st.last = "vote"
    /\ st.state.chats["-1001"].poll # NoPoll
    /\ st.recent["-1001"][1] = "no"
    /\ st.recent["-1001"][2] = "yes"
    /\ ~Has(st.state.chats["-1001"].participants, 1)
    /\ Has(st.state.chats["-1001"].participants, 2)
    /\ st.ops = 5

\* C15: a vote whose poll id is not in the poll index (an unknown poll, or a poll
\* already closed or replaced) changes no chat's participants, poll, history or
\* other chat data.
C15_UnindexedVoteChangesNothing ==
    [][(st'.last = "vote" /\ st'.ops = st.ops + 1
        /\ ~Has(st.state.pollIndex, st'.vote.pollId))
          => (st'.state.chats = st.state.chats /\ st'.state.pollIndex = st.state.pollIndex)]_vars

C15_Witness ==
    /\ st.last = "vote"
    /\ ~Has(st.state.pollIndex, st.vote.pollId)
    /\ st.vote.pollId <= st.sent
    /\ 0 \in st.vote.optionIds
    /\ \E c \in ChatIds : st.state.chats[c].poll # NoPoll /\ st.state.chats[c].participants # EmptyMap

----------------------------------------------------------------------------
(* Properties of the handlers, under SpecHandlers *)

AdminOnlyReply(chatId, ok) ==
    [call |-> "sendMessage", to |-> chatId, text |-> "replyAdminOnly", ok |-> ok]

GatedCall ==
    /\ st.last = "command"
    /\ ~st.call.admin
    /\ st.call.command \in {"/poll", "/summary", "/settopic", "/setlink"}

UngatedCall ==
    /\ st.last = "command"
    /\ ~st.call.admin
    /\ st.call.command \in {"/nextpoll", "/leaderboard"}

UngatedAnswers(command) ==
    IF command = "/leaderboard" THEN {"formatLeaderboard"}
    ELSE {"replyPollAlreadyActiveWithDate", "replyPollWindowOpen", "replyNextPollWindow"}

SummaryStopRefused ==
    /\ st.last = "command"
    /\ st.call.command = "/summary"
    /\ st.call.admin
    /\ st.pre.answer # NoError

ClosedNotice(chatId, ok) ==
    [call |-> "sendMessage", to |-> chatId, text |-> "formatPollClosedNoResults", ok |-> ok]

\* the run went on as alreadyClosed: after the stopPoll call the closed notice
TreatedAsAlreadyClosed ==
    /\ Len(st.res.out) >= 2
    /\ st.res.out[2].call = "sendMessage"
    /\ st.res.out[2].text = "formatPollClosedNoResults"

\* the stopPoll error ended the run: no further call, nothing changed
StopErrorPropagated ==
    /\ ~st.res.ok
    /\ st.res.out = <<[call |-> "stopPoll", to |-> st.call.chatId, text |-> "", ok |-> FALSE]>>
    /\ st.res.state = st.pre.state
    /\ cache = st.pre.state
    /\ db = st.pre.db

SaysAlreadyClosed(error) ==
    /\ error.tag = "TelegramApiError"
    /\ error.errorCode = 400
    /\ includes(error.description, <<"poll", "has", "already", "been", "closed">>)

\* C18 as stated: a 400 whose description contains "poll has already been
\* closed" becomes alreadyClosed, and every other stopPoll error propagates and
\* aborts the summarization with no state change and no summary message.
C18_OnlyAlreadyClosedTextIsSwallowed ==
    SummaryStopRefused =>
        IF SaysAlreadyClosed(st.pre.answer) THEN TreatedAsAlreadyClosed
        ELSE StopErrorPropagated

\* the 400 answers to stopPoll whose description holds, in any letter case,
\* "poll has already been closed" or "poll to stop not found"
ClosedAnswers ==
    {StopPollErrors["stopPollClosed"], StopPollErrors["stopPollClosedUpper"],
     StopPollErrors["stopPollNotFound"]}

\* C18 amended: a stopPoll error with code 400 whose description contains, in any
\* letter case, "poll has already been closed" or "poll to stop not found"
\* becomes alreadyClosed; every other stopPoll error propagates and aborts the
\* summarization with no state change and no message sent.
C18_ClosedFragmentsAreSwallowed ==
    SummaryStopRefused =>
        IF st.pre.answer \in ClosedAnswers THEN TreatedAsAlreadyClosed
        ELSE StopErrorPropagated

C18_Witness ==
    /\ SummaryStopRefused
    /\ st.pre.answer = StopPollErrors["stopPollNotFound"]
    /\ TreatedAsAlreadyClosed
    /\ st.res.ok

ClosedRun ==
    /\ SummaryStopRefused
    /\ st.pre.answer \in ClosedAnswers

ChatBefore == st.pre.state.chats[st.call.chatId]
ChatAfter == st.res.state.chats[st.call.chatId]
ChatStored == buildStateFromRows(db).chats[st.call.chatId]

\* C19: on the alreadyClosed outcome the closed notice is the one message sent,
\* the chat's poll, participants and poll-index entry are gone from the state
\* handed back, from the cache and from the database rows, and the chat's pair
\* history and lastSummaryAt are what they were before, in all three.
C19_ClosedPollKeepsHistory ==
    ClosedRun =>
        /\ st.call.fault \in DOMAIN StopPollErrors => st.res.ok
        /\ st.res.ok =>
            /\ st.res.out = <<[call |-> "stopPoll", to |-> st.call.chatId, text |-> "",
                               ok |-> FALSE],
                              ClosedNotice(st.call.chatId, TRUE)>>
            /\ cache = st.res.state
            /\ ChatAfter.poll = NoPoll /\ ChatStored.poll = NoPoll
            /\ ChatAfter.participants = EmptyMap /\ ChatStored.participants = EmptyMap
            /\ ~Has(st.res.state.pollIndex, ChatBefore.poll.pollId)
            /\ ~Has(buildStateFromRows(db).pollIndex, ChatBefore.poll.pollId)
            /\ ChatAfter.history = ChatBefore.history
            /\ ChatStored.history = ChatBefore.history
            /\ ChatAfter.lastSummaryAt = ChatBefore.lastSummaryAt
            /\ ChatStored.lastSummaryAt = ChatBefore.lastSummaryAt

C19_Witness ==
    /\ ClosedRun
    /\ st.res.ok
    /\ ChatBefore.participants # EmptyMap
    /\ ChatBefore.history # EmptyMap
    /\ ChatBefore.lastSummaryAt = formatLocalDate(EarlierDate)
    /\ ChatAfter.history = ChatBefore.history
    /\ ChatAfter.poll = NoPoll

\* an admin's /poll or /summary in which no hard call fails; st.ref is the same
\* run with no best-effort failure either
BestEffortRun ==
    /\ st.last = "command"
    /\ st.call.admin
    /\ st.call.command \in {"/poll", "/summary"}
    /\ st.call.fault = "none"

Attempts(out) == [i \in DOMAIN out |-> [call |-> out[i].call, to |-> out[i].to,
                                        text |-> out[i].text]]

DirectMessages(out) == {i \in DOMAIN out : out[i].text = "formatDirectPairingMessage"}

BestEffort(out) ==
    {i \in DOMAIN out : out[i].call = "pinChatMessage"} \cup DirectMessages(out)

Recipients ==
    IF st.call.command = "/summary" /\ Has(st.pre.state.chats, st.call.chatId)
    THEN {DirectChatId(u) : u \in DOMAIN ChatBefore.participants}
    ELSE {}

\* C20: whichever pins and direct messages the platform refuses, the run ends
\* as the run without refusals does: the same success, the same state handed
\* back, cached and stored, the same polls on the platform and the same calls
\* attempted in the same order; only the refused best-effort calls differ in
\* their result, and every participant of a summarized poll has a direct
\* message attempted.
C20_BestEffortFailuresAreIgnored ==
    BestEffortRun =>
        /\ st.res.ok = st.ref.ok
        /\ st.res.state = st.ref.state
        /\ cache = st.ref.cache
        /\ db = st.ref.db
        /\ tg = st.ref.tg
        /\ Attempts(st.res.out) = Attempts(st.ref.out)
        /\ \A i \in DOMAIN st.res.out :
              st.res.out[i].ok =
                 IF i \in BestEffort(st.res.out)
                 THEN (IF st.res.out[i].call = "pinChatMessage"
                       THEN "pinChatMessage" \notin st.call.lost
                       ELSE st.res.out[i].to \notin st.call.lost)
                 ELSE st.ref.out[i].ok
        /\ st.res.ok => {st.res.out[i].to : i \in DirectMessages(st.res.out)} = Recipients

C20_Witness ==
    /\ BestEffortRun
    /\ st.call.command = "/summary"
    /\ st.res.ok
    /\ cache # st.pre.state
    /\ "pinChatMessage" \in st.call.lost
    /\ \E i, j \in DirectMessages(st.res.out) :
          /\ i < j
          /\ ~st.res.out[i].ok
          /\ st.res.out[j].ok

\* an admin's /setlink without an argument or with one the parser refuses
InvalidSetLink ==
    /\ st.last = "command"
    /\ st.call.command = "/setlink"
    /\ st.call.admin
    /\ st.call.fault \in {"none", "sendMessage"}
    /\ \/ extractCommandArg(st.call.text) = ""
       \/ parseTelegramChatLink(extractCommandArg(st.call.text)) = NoLink

\* C29: such a command changes nothing in the stored bot state and writes
\* nothing: cache and database rows are the ones before it, the state it
\* returns is the state the dispatcher handed it (the stored state with the
\* chat registered), and the only outbound call is the invalid-link reply.
C29_InvalidLinkChangesNothing ==
    InvalidSetLink =>
        /\ cache = st.pre.state
        /\ db = st.pre.db
        /\ st.res.state = ensureChat(st.pre.state, st.call.chatId)
        /\ Len(st.res.out) = 1
        /\ st.res.out[1].call = "sendMessage"
        /\ st.res.out[1].to = st.call.chatId
        /\ st.res.out[1].text = "replySetLinkInvalid"
        /\ st.res.ok = st.res.out[1].ok

C29_Witness ==
    /\ InvalidSetLink
    /\ st.call.text = "/setlink not-a-link"
    /\ st.call.fault = "none"
    /\ ~Has(st.pre.state.chats, st.call.chatId)
    /\ st.res.ok

----------------------------------------------------------------------------
(* Properties of the chat state *)

RoundTrip(state) == buildStateFromRows(buildPersistRows(state))

SameUpToOrder(a, b) ==
    /\ a.chats = b.chats
    /\ a.pollIndex = b.pollIndex
    /\ a.updateOffset = b.updateOffset
    /\ a.seed = b.seed

WithoutLinks(state) ==
    [state EXCEPT !.chats = [c \in DOMAIN state.chats |->
                                [state.chats[c] EXCEPT !.inviteLink = NoLink]]]

\* C21: the state rebuilt from the rows written for a state equals that state,
\* up to the order of its maps (chats with and without an open poll, with
\* participants, history, title, thread and invite link).
C21_RoundTripIsIdentity == SameUpToOrder(RoundTrip(st.state), st.state)

\* What the rows do carry: every field of every chat except the invite link,
\* and the poll-index entries of the polls that chats hold.
HeldPolls(state) ==
    {p \in DOMAIN state.pollIndex :
        \E c \in DOMAIN state.chats : state.chats[c].poll # NoPoll
                                        /\ state.chats[c].poll.pollId = p}

C21_RoundTripKeepsTheRest ==
    LET rebuilt == RoundTrip(st.state)
        stripped == WithoutLinks(st.state)
    IN /\ rebuilt.chats = stripped.chats
       /\ rebuilt.updateOffset = stripped.updateOffset
       /\ rebuilt.seed = stripped.seed
       /\ DOMAIN rebuilt.pollIndex = HeldPolls(st.state)

OnMissingChat(names) ==
    /\ st.last \in names
    /\ ~Has(st.pre.chats, st.call.chatId)

\* C25: startPoll, applySummary, finishPoll, setThreadId, setChatTitle and
\* setChatInviteLink return the state they were given when the chat does not
\* exist.
C25_MissingChatIsANoOp ==
    OnMissingChat({"startPoll", "applySummary", "finishPoll", "setThreadId",
                   "setChatTitle", "setChatInviteLink"}) => st.state = st.pre

\* All of them except startPoll do.
C25_AllButStartPollAreNoOps ==
    OnMissingChat({"applySummary", "finishPoll", "setThreadId", "setChatTitle",
                   "setChatInviteLink"}) => st.state = st.pre

\* C26: a second ensureChat for the same chat returns the state of the first,
\* so the two calls together advance the global seed once when the chat was
\* new and not at all when it was known.
C26_EnsureChatIsIdempotent ==
    [][(/\ st.last = "ensureChat"
        /\ st'.last = "ensureChat"
        /\ st'.call.chatId = st.call.chatId)
       => /\ st'.state = st.state
          /\ Has(st.state.chats, st.call.chatId)
          /\ st'.state.seed = IF Has(st.pre.chats, st.call.chatId) THEN st.pre.seed
                              ELSE nextSeed(st.pre.seed)
          /\ ~Has(st.pre.chats, st.call.chatId) =>
                st'.state.chats[st.call.chatId] = emptyChatState(st.pre.seed)]_vars

C26_Witness ==
    /\ st.last = "ensureChat"
    /\ st.ops = 2
    /\ st.pre = st.state
    /\ st.state.seed = nextSeed(InitialSeed)
    /\ st.state.chats[st.call.chatId] = emptyChatState(InitialSeed)

SeedInRange(seed) == 0 < seed /\ seed < modulus

SeedsInRange(state) ==
    /\ SeedInRange(state.seed)
    /\ \A c \in DOMAIN state.chats : SeedInRange(state.chats[c].seed)

\* C27: the global seed and every chat's seed are strictly between 0 and the
\* modulus at all times, from first boot through registrations and summaries.
C27_SeedsAlwaysInRange == SeedsInRange(st.state)

\* Seeds that are in range stay in range; a seed of 0 never leaves 0.
C27_SeedsInRangeStayInRange ==
    [][SeedsInRange(st.state) => SeedsInRange(st'.state)]_vars

HistoryGrows(before, after) ==
    \A k \in DOMAIN before : Has(after, k) /\ after[k] >= before[k]

\* C23: over any sequence of votes, polls opened, summaries, polls closed and
\* changes of title, thread and link, no chat is lost, no key leaves a chat's
\* pair history and no count of it goes down.
C23_HistoryOnlyGrows ==
    [][\A c \in DOMAIN st.state.chats :
          /\ Has(st'.state.chats, c)
          /\ HistoryGrows(st.state.chats[c].history, st'.state.chats[c].history)]_vars

C23_Witness ==
    /\ st.last = "applySummary"
    /\ Has(st.pre.chats, st.call.chatId)
    /\ \E k \in DOMAIN st.pre.chats[st.call.chatId].history :
          st.state.chats[st.call.chatId].history[k] > st.pre.chats[st.call.chatId].history[k]

----------------------------------------------------------------------------
(* Properties of the pairing engine *)

Paired == st.last = "pairParticipants"

PairedIds(pairs) == {pairs[i].members[m].id : i \in DOMAIN pairs, m \in 1..2}

\* how often id u occurs among the pairs and the leftovers
Occurrences(u) ==
    Cardinality({<<i, m>> \in (DOMAIN st.res.pairs) \X (1..2) : st.res.pairs[i].members[m].id = u})
    + Cardinality({i \in DOMAIN st.res.leftovers : st.res.leftovers[i].id = u})

\* C22: whatever the history and the seed, every participant of a list with
\* distinct ids ends in exactly one place, a pair or the leftovers, nobody
\* else does, and the leftovers are n mod 2 participants.
C22_PairingIsAPartition ==
    Paired =>
        /\ \A i \in DOMAIN st.pre.participants : Occurrences(st.pre.participants[i].id) = 1
        /\ \A u \in PairUsers :
              Occurrences(u) > 0 => \E i \in DOMAIN st.pre.participants :
                                        st.pre.participants[i].id = u
        /\ \A i \in DOMAIN st.res.pairs :
              /\ st.res.pairs[i].kind = "pair"
              /\ Len(st.res.pairs[i].members) = 2
        /\ Len(st.res.leftovers) = Len(st.pre.participants) % 2

C22_Witness ==
    /\ Paired
    /\ Len(st.pre.participants) = 3
    /\ st.pre.history # EmptyMap
    /\ st.pre.seed = 0
    /\ Len(st.res.pairs) = 1
    /\ Len(st.res.leftovers) = 1

Smaller(a, b) == IF a < b THEN a ELSE b
Larger(a, b) == IF a < b THEN b ELSE a

\* C24: one pair {A, B} recorded on an empty history gives exactly one entry,
\* under the key of the smaller id followed by the larger one, with count 1,
\* and the same history whichever member comes first.
C24_PairKeyIsCanonical ==
    st.last = "updateHistory" =>
        LET a == st.pre.participants[1].id
            b == st.pre.participants[2].id
        IN /\ DOMAIN st.res.forward = {<<Smaller(a, b), Larger(a, b)>>}
           /\ st.res.forward[<<Smaller(a, b), Larger(a, b)>>] = 1
           /\ st.res.backward = st.res.forward

C24_Witness ==
    /\ st.last = "updateHistory"
    /\ st.pre.participants[1].id > st.pre.participants[2].id
    /\ DOMAIN st.res.forward = {<<st.pre.participants[2].id, st.pre.participants[1].id>>}

----------------------------------------------------------------------------
(* Properties of the generator *)

\* C28: for every integer seed, negative, zero, positive or a multiple of the
\* modulus, nextSeed(seed) is strictly between 0 and the modulus.
C28_NextSeedInRange == st.last = "nextSeed" => SeedInRange(st.res)

\* It is for every seed that is not a multiple of the modulus, and 0 for the
\* multiples.
C28_NextSeedInRangeOffMultiples ==
    st.last = "nextSeed" =>
        IF Rem(st.pre.seed, modulus) = 0 THEN st.res = 0 ELSE SeedInRange(st.res)

----------------------------------------------------------------------------
(* Properties of the loop *)

\* C30: whatever fails inside a tick (the fetch of updates, the persistence
\* of the folded state, a command, the resolution of the date, a schedule
\* action), the loop does not end: after a failed tick a next tick is started.
C30_FailedTickIsFollowedByATick ==
    \A parity \in {0, 1} :
        (st.last = "failed" /\ st.ops = parity) ~> (st.ops # parity)

C30_Witness ==
    /\ st.done
    /\ st.last = "running"
    /\ pc = "decide"

----------------------------------------------------------------------------
(* Properties of summaries and polls *)

\* a summarize that came to a result although the platform had already stopped
\* the poll for an earlier attempt; the chat had at least two opt-ins
RetriedSummary ==
    /\ st.last = "summarize"
    /\ st.res.ok
    /\ st.pre.state.chats[st.call.chatId].poll # NoPoll
    /\ Cardinality(DOMAIN st.pre.state.chats[st.call.chatId].participants) >= 2
    /\ st.pre.tg[st.pre.state.chats[st.call.chatId].poll.messageId].status = "stopped"

SummaryTexts(out) == {out[i].text : i \in {j \in DOMAIN out : out[j].call = "sendMessage"}}

\* C31: the opt-ins survive a summarize attempt that failed after its stopPoll
\* succeeded: a later attempt for the chat still pairs the recorded
\* participants, sends the pairing summary and records the pairs in history.
C31_OptInsSurviveFailedSummary ==
    RetriedSummary =>
        /\ "formatSummary" \in SummaryTexts(st.res.out)
        /\ st.res.state.chats[st.call.chatId].history
              # st.pre.state.chats[st.call.chatId].history

PollCreated == st.last = "createPoll"

\* the calls of createPoll in the order made, the call of set among them
CreatePollCalls == [i \in DOMAIN st.res.out |-> st.res.out[i].call]

\* C33: createPoll changes and persists the state only after sendPoll has
\* succeeded. When sendPoll fails nothing else is called, set included, and
\* the state, the cache and the rows are the ones before. When it succeeds set
\* is called exactly once, before the pin, and unless that set fails the poll
\* of the chat carries the poll id and the message id the platform returned,
\* in the returned state, the cache and the rows, whether or not the pin
\* succeeds.
C33_CreatePollStoresAfterSendPoll ==
    PollCreated =>
        IF st.call.fault = "sendPoll"
        THEN /\ ~st.res.ok
             /\ st.res.sets = 0
             /\ st.res.out = <<>>
             /\ st.res.state = st.pre.state
             /\ cache = st.pre.state
             /\ db = st.pre.db
             /\ tg = st.pre.tg
        ELSE /\ st.res.sets = 1
             /\ Len(tg) = Len(st.pre.tg) + 1
             /\ st.res.out[1].call = "sendPoll" /\ st.res.out[1].ok
             /\ st.res.ok = (st.call.fault # "set")
             /\ st.res.state.chats[st.call.chatId].poll.pollId = Len(tg)
             /\ st.res.state.chats[st.call.chatId].poll.messageId = Len(tg)
             /\ tg[Len(tg)] = [chatId |-> st.call.chatId, status |-> "open"]
             /\ st.res.state.chats[st.call.chatId].participants = EmptyMap
             /\ cache = st.res.state
             /\ st.res.ok =>
                   /\ db = buildPersistRows(st.res.state)
                   /\ CreatePollCalls = <<"sendPoll", "pinChatMessage">>
                   /\ st.res.out[2].ok = ("pinChatMessage" \notin st.call.lost)

C33_Witness ==
    /\ PollCreated
    /\ st.res.ok
    /\ "pinChatMessage" \in st.call.lost
    /\ st.pre.state.chats[st.call.chatId].poll = NoPoll
    /\ buildStateFromRows(db).chats[st.call.chatId].poll.messageId = Len(tg)

----------------------------------------------------------------------------
(* Properties of the calendar *)

\* chat -1001 holds an open poll and a whole week of the calendar is still to come
OpenPollInCalendar ==
    /\ cache.chats["-1001"].poll # NoPoll
    /\ DaysElapsed + Cardinality(Weekdays) <= MaxCalendarDays

\* C32: with ticks running on every day, a chat with an open poll eventually
\* reaches a tick whose schedule decision for it is summarize, also when no tick
\* summarized it on its summary date
C32_OpenPollIsEventuallySummarized ==
    OpenPollInCalendar ~> (st.last = "summarize")

----------------------------------------------------------------------------
(* Properties of the participants *)

NoParticipantsWithoutPoll(state) ==
    \A c \in DOMAIN state.chats :
        state.chats[c].poll = NoPoll => state.chats[c].participants = EmptyMap

\* C34: in every reachable state a chat whose poll is null has an empty
\* participants map, in the cached state and in the state the rows load to
C34_NoPollNoParticipants ==
    /\ NoParticipantsWithoutPoll(cache)
    /\ NoParticipantsWithoutPoll(buildStateFromRows(db))

C34_Witness ==
    /\ st.last = "command"
    /\ st.call.command = "/summary"
    /\ st.call.chatId \in DOMAIN st.pre.state.chats
    /\ st.pre.state.chats[st.call.chatId].poll # NoPoll
    /\ st.pre.state.chats[st.call.chatId].participants # EmptyMap
    /\ st.pre.answer # NoError
    /\ cache.chats[st.call.chatId].poll = NoPoll
    /\ cache.chats[st.call.chatId].participants = EmptyMap

----------------------------------------------------------------------------
(* Properties of the summary transition *)

SummaryApplied == st.last = "applySummary" /\ Has(st.pre.chats, st.call.chatId)

MemberKeys(pair) ==
    IF pair.kind = "pair" THEN {keyFor(pair.members[1], pair.members[2])}
    ELSE {keyFor(pair.members[1], pair.members[2]), keyFor(pair.members[1], pair.members[3]),
          keyFor(pair.members[2], pair.members[3])}

Meetings(pairs, k) == Cardinality({i \in DOMAIN pairs : k \in MemberKeys(pairs[i])})

\* every key counts what it counted before plus the pairings that contain it
HistoryUpdated(before, after, pairs) ==
    /\ DOMAIN after = DOMAIN before \cup UNION {MemberKeys(pairs[i]) : i \in DOMAIN pairs}
    /\ \A k \in DOMAIN after :
          after[k] = (IF Has(before, k) THEN before[k] ELSE 0) + Meetings(pairs, k)

\* C35: after applySummary on an existing chat the chat has no poll and no
\* participants, lastSummaryAt and seed are the supplied ones, the history is the
\* previous one updated with the pairs, and the index entry of the former poll is
\* gone, all in the one state returned
C35_ApplySummaryClosesTheRound ==
    SummaryApplied =>
        /\ st.state.chats[st.call.chatId].poll = NoPoll
        /\ st.state.chats[st.call.chatId].participants = EmptyMap
        /\ st.state.chats[st.call.chatId].lastSummaryAt = st.res.summaryDate
        /\ st.state.chats[st.call.chatId].seed = st.res.seed
        /\ st.state.chats[st.call.chatId].history =
              updateHistory(st.pre.chats[st.call.chatId].history, st.res.pairs)
        /\ HistoryUpdated(st.pre.chats[st.call.chatId].history,
                          st.state.chats[st.call.chatId].history, st.res.pairs)
        /\ st.pre.chats[st.call.chatId].poll # NoPoll =>
              ~Has(st.state.pollIndex, st.pre.chats[st.call.chatId].poll.pollId)

C35_Witness ==
    /\ SummaryApplied
    /\ st.pre.chats[st.call.chatId].poll # NoPoll
    /\ Has(st.pre.pollIndex, st.pre.chats[st.call.chatId].poll.pollId)
    /\ st.res.pairs # <<>>
    /\ st.pre.chats[st.call.chatId].history # EmptyMap
    /\ st.res.seed # st.pre.chats[st.call.chatId].seed
    /\ st.res.summaryDate # st.pre.chats[st.call.chatId].lastSummaryAt

----------------------------------------------------------------------------
(* Properties of partners and organizers *)

PairsBuilt == st.last = "buildPairs"

\* how often the two have met, looked up under the key of the smaller id first
Met(history, a, b) ==
    IF Has(history, <<Smaller(a.id, b.id), Larger(a.id, b.id)>>)
    THEN history[<<Smaller(a.id, b.id), Larger(a.id, b.id)>>] ELSE 0

\* the participants not in a pair before the i-th and not its first member
Unpaired(i) ==
    {st.pre.participants[k] : k \in
        {n \in DOMAIN st.pre.participants :
            /\ st.pre.participants[n].id # st.res.pairs[i].members[1].id
            /\ \A j \in 1..(i - 1), m \in 1..2 :
                  st.pre.participants[n].id # st.res.pairs[j].members[m].id}}

\* C36: in every pair buildPairs produces, the partner is one of the participants
\* still unpaired at that step and has met the pair's first member no more
\* often than any of them
C36_PartnerHasMinimumHistory ==
    PairsBuilt =>
        \A i \in DOMAIN st.res.pairs :
            /\ st.res.pairs[i].members[2] \in Unpaired(i)
            /\ \A c \in Unpaired(i) :
                  Met(st.pre.history, st.res.pairs[i].members[1], st.res.pairs[i].members[2])
                    <= Met(st.pre.history, st.res.pairs[i].members[1], c)

C36_Witness ==
    /\ PairsBuilt
    /\ Len(st.res.pairs) = 2
    /\ st.res.pairs[1].members[2] # st.pre.participants[2]
    /\ Met(st.pre.history, st.pre.participants[1], st.pre.participants[2])
         > Met(st.pre.history, st.pre.participants[1], st.res.pairs[1].members[2])

OrganizersAssigned == st.last = "assignOrganizers"

\* the assignments of the i-th pairing: assignOrganizers appends them in the
\* order of the pairings and of their members
AssignmentsOf(i) ==
    LET before == IF i = 1 THEN 0
                  ELSE Len(Flat([j \in 1..(i - 1) |-> st.res.pairs[j].members]))
    IN SubSeq(st.res.assignments, before + 1, before + Len(st.res.pairs[i].members))

\* C37: for every pairing passed to assignOrganizers exactly one member is the
\* organizer, every member gets exactly one assignment, and the counterparts of
\* a member are exactly the other members of its pairing
C37_OneOrganizerPerPairing ==
    OrganizersAssigned =>
        /\ Len(st.res.assignments) = Len(Flat([j \in DOMAIN st.res.pairs |-> st.res.pairs[j].members]))
        /\ \A i \in DOMAIN st.res.pairs :
            LET members == st.res.pairs[i].members
                assigned == AssignmentsOf(i)
            IN /\ Cardinality({k \in DOMAIN assigned : assigned[k].isOrganizer}) = 1
               /\ \A m \in DOMAIN members :
                     /\ Cardinality({k \in DOMAIN st.res.assignments :
                                        st.res.assignments[k].participant = members[m]}) = 1
                     /\ \E k \in DOMAIN assigned :
                           /\ assigned[k].participant = members[m]
                           /\ {assigned[k].counterparts[n] : n \in DOMAIN assigned[k].counterparts}
                                = {members[n] : n \in DOMAIN members} \ {members[m]}
                           /\ Len(assigned[k].counterparts) = Len(members) - 1

C37_Witness ==
    /\ OrganizersAssigned
    /\ Len(st.res.pairs) = 1
    /\ st.res.pairs[1].kind = "triple"
    /\ ~st.res.assignments[1].isOrganizer
    /\ \A k \in 1..3 : Len(st.res.assignments[k].counterparts) = 2

----------------------------------------------------------------------------
(* Properties of the frame *)

ChatTouched == st.last # "none"

\* C38: a state transition or a folded update that targets one chat leaves the
\* state of every other chat as it was
C38_OtherChatsUnchanged ==
    ChatTouched =>
        \A c \in DOMAIN st.pre.chats :
            c # st.call.chatId =>
                /\ Has(st.state.chats, c)
                /\ st.state.chats[c] = st.pre.chats[c]

C38_Witness ==
    /\ st.last = "update"
    /\ Has(st.pre.chats, st.call.chatId)
    /\ st.state.chats[st.call.chatId] # st.pre.chats[st.call.chatId]
    /\ \E c \in DOMAIN st.pre.chats :
          /\ c # st.call.chatId
          /\ st.pre.chats[c].poll # NoPoll
          /\ st.pre.chats[c].title = NoTitle

----------------------------------------------------------------------------
(* Properties of the profile flow *)

PrivateMessageHandled == st.last = "message"

\* text that is neither a command nor a label of the keyboard
PlainText(text) ==
    /\ ~isStartCommand(text)
    /\ text \notin ProfileLabels
    /\ text # OrganizerLabel

ProfileStored ==
    \/ st.state.profiles # st.pre.profiles
    \/ \E i \in DOMAIN st.res.out : st.res.out[i] = "formatProfileSaved"

----------------------------------------------------------------------------
(* Properties of the summary date of a manual poll *)

DigitValue(c) == CHOOSE d \in 0..9 : DigitChar[d + 1] = c

\* the order of two LocalDateStrings: year, then month, then day
RECURSIVE DateBefore(_, _)
DateBefore(a, b) ==
    IF a = <<>> \/ b = <<>> THEN FALSE
    ELSE IF Head(a) = "-" \/ Head(a) = Head(b) THEN DateBefore(Tail(a), Tail(b))
    ELSE DigitValue(Head(a)) < DigitValue(Head(b))

\* days from the weekday to the Monday after it
DaysToNextMonday(weekday) == CHOOSE k \in 1..7 : (weekdayIndex(weekday) + k) % 7 = 1

PolledManually(chat, summaryDate) ==
    [chat EXCEPT !.poll = [pollId |-> 1, messageId |-> 1, chatId |-> "-1001",
                           summaryDate |-> summaryDate, threadId |-> NoThread]]

\* C40: for every date and weekday summaryDateForPoll is a date after today,
\* seven days ahead on a Monday and the next Monday otherwise, so the poll it
\* is given to is not due for its summary on the day it was opened
C40_SummaryDateIsAfterToday ==
    sched.done =>
        /\ DateBefore(formatLocalDate(sched.parts), sched.pollSummaryDate)
        /\ sched.weekday = "Mon" =>
              sched.pollSummaryDate = formatLocalDate(addDays(sched.parts, 7))
        /\ sched.pollSummaryDate =
              formatLocalDate(addDays(sched.parts, DaysToNextMonday(sched.weekday)))
        /\ sched.weekday = WeekdayOf(sched.parts) =>
              \E k \in 1..7 :
                  /\ WeekdayOf(addDays(sched.parts, k)) = "Mon"
                  /\ sched.pollSummaryDate = formatLocalDate(addDays(sched.parts, k))
        /\ ~isSummaryDay(PolledManually(sched.chat, sched.pollSummaryDate),
                         formatLocalDate(sched.parts), sched.weekday)

C40_Witness ==
    /\ sched.done
    /\ sched.weekday = "Mon"
    /\ WeekdayOf(sched.parts) = "Mon"
    /\ sched.pollSummaryDate = formatLocalDate(addDays(sched.parts, 7))


====
